---- MODULE Spec2Model ----
(***************************************************************************)
(* Multi-source iterators of torchtnt/utils/data/iterators.py:             *)
(* RoundRobinIterator, AllDatasetBatchesIterator,                          *)
(* RandomizedBatchSamplerIterator and InOrderIterator, their constructors, *)
(* __next__, state_dict and load_state_dict.                               *)
(*                                                                         *)
(* A dataloader is a finite re-iterable sequence of batches: iter(dl)      *)
(* gives an iterator at position 0, next(it) returns batch number pos and  *)
(* moves on, and raises StopIteration (for good) once pos = len.  A batch  *)
(* is identified by its index in its dataloader.  A Python dict is a       *)
(* function; the insertion order of individual_dataloaders is the order of *)
(* the key list it is built from.                                          *)
(***************************************************************************)
EXTENDS Integers, Sequences, FiniteSets, TLC

\* ------------------------------------------------------------------ bounds
\* longest dataloader, in batches
MaxLen == 3
\* batches of all dataloaders of a mapping together
MaxBatches == 4
\* longest supplied iteration_order
MaxOrderLen == 2
\* __next__ calls made on one iterator object
MaxCalls == 6
\* random.choices draws made within one __next__ call of the sampler
MaxChoices == 3
\* __next__ calls made on an object after its load_state_dict
MaxLoadedCalls == 2

\* __next__ calls of a rank of a distributed run
MaxRankCalls == 3

\* batches of the dataloaders of a rank, in all
MaxRankBatches == 3

\* get calls made on the registry
MaxGets == 3

\* _maybe_stop calls made on the callback of one rank
MaxHooks == 3

\* ------------------------------------------------------------------ inputs
\* key lists the individual_dataloaders mappings are built from
KeyLists == {<<"a">>, <<"a", "b">>, <<"b", "a">>, <<"a", "b", "c">>}

\* a key no mapping is built from (for state dicts of another run)
UnknownKey == "z"

ALL_DATASETS_EXHAUSTED == "ALL_DATASETS_EXHAUSTED"
SMALLEST_DATASET_EXHAUSTED == "SMALLEST_DATASET_EXHAUSTED"
RESTART_UNTIL_ALL_DATASETS_EXHAUSTED == "RESTART_UNTIL_ALL_DATASETS_EXHAUSTED"
WRAP_AROUND_UNTIL_KILLED == "WRAP_AROUND_UNTIL_KILLED"

StoppingMechanism ==
    { ALL_DATASETS_EXHAUSTED, SMALLEST_DATASET_EXHAUSTED,
      RESTART_UNTIL_ALL_DATASETS_EXHAUSTED, WRAP_AROUND_UNTIL_KILLED }

\* ------------------------------------------------------------------ helpers
Range(s) == { s[i] : i \in DOMAIN s }

Contains(s, x) == \E i \in DOMAIN s : s[i] = x

\* the sum of f over the keys ks
RECURSIVE SumOver(_, _)
SumOver(f, ks) ==
    IF ks = {} THEN 0
    ELSE LET k == CHOOSE x \in ks : TRUE IN f[k] + SumOver(f, ks \ {k})

\* the empty dict
EmptyDict == [k \in {} |-> 0]

\* what a call gives back: a value (a dict of batches) or an exception;
\* "Hang" is a call that never returns
Returned(d) == [exc |-> "None", value |-> d]
Raised(e) == [exc |-> e, value |-> EmptyDict]
NoCall == Raised("NoCall")

StopIteration == Raised("StopIteration")
NotImplementedError == Raised("NotImplementedError")
AssertionError == Raised("AssertionError")
Hang == Raised("Hang")

\* ------------------------------------------------------------------ sources
\* A dataloader: its length and how often iter() and next() were applied to
\* it or to its iterators during the method call made last.
Dataloader(n) == [len |-> n, iter_calls |-> 0, next_calls |-> 0]

\* the dataloaders as a method call finds them
AtCall(loaders) ==
    [name \in DOMAIN loaders |-> Dataloader(loaders[name].len)]

\* iter(dl): every key of ks gets a new iterator
IterAll(dls, ks) ==
    [name \in DOMAIN dls |->
        IF name \in ks THEN [dls[name] EXCEPT !.iter_calls = @ + 1] ELSE dls[name]]

IterOne(dls, k) == IterAll(dls, {k})

\* next(it) on an iterator of dataloader k standing at pos
HasNext(dls, k, pos) == pos < dls[k].len

NextOne(dls, k) ==
    [name \in DOMAIN dls |->
        IF name = k THEN [dls[name] EXCEPT !.next_calls = @ + 1] ELSE dls[name]]

\* list(d.keys()) of the mapping built from key list ks
KeysOf(ks) == ks

\* ------------------------------------------------------------------ state
VARIABLES
    dl_keys,                 \* key list of the individual_dataloaders mapping
    individual_dataloaders,  \* key -> dataloader
    iteration_strategy,      \* the DataIterationStrategy dataclass instance
    self,                    \* the MultiIterator object
    pc,                      \* "new", "ready", "raised", "hung", "saved"
    op,                      \* the method called last
    ret,                     \* what the last call gave back
    calls,                   \* __next__ calls made on self
    stopped,                 \* __next__ of self has raised StopIteration
    returned,                \* dicts returned by __next__ before it first raised
    records,                 \* those dicts, in order (not kept for the sampler)
    snapshot,                \* the state dict given by state_dict
    orig,                    \* the object the snapshot was taken from
    loaded,                  \* the state dict passed to load_state_dict
    dist_initialized,        \* torch.distributed.is_initialized() in the processes
    ranks,                   \* rank -> the process of that rank (its iterator, ...)
    broadcasts,              \* the values rank 0 has broadcast, in order
    REGISTRY,                \* DataIterationStrategyRegistry.REGISTRY
    got                      \* the outcomes of the get calls made, in order

vars ==
    << dl_keys, individual_dataloaders, iteration_strategy, self, pc, op, ret,
       calls, stopped, returned, records, snapshot, orig, loaded,
       dist_initialized, ranks, broadcasts, REGISTRY, got >>

\* the processes of a distributed run and what they exchange
dist_vars == << dist_initialized, ranks, broadcasts >>

\* the registry and the lookups made in it
registry_vars == << REGISTRY, got >>

\* an object whose constructor has not run to its end
NoObject == [constructed |-> FALSE]

NoStateDict == [taken |-> FALSE]

Class == iteration_strategy.class

\* what a method call leaves behind: the object, the dataloaders, the outcome
Result(obj, dls, r) == [self |-> obj, dls |-> dls, ret |-> r]

\* ------------------------------------------------------------------ itertools.cycle
\* cycle(items): pos is the 0-based index of the element next() gives
Cycle(items) == [items |-> items, pos |-> 0]

CyclePeek(c) == c.items[c.pos + 1]

CycleAdvance(c) == [c EXCEPT !.pos = (@ + 1) % Len(c.items)]

\* steps from pos to the first element that is in the set wanted, cyclically
\* (only used where such an element exists)
CycleDistance(c, wanted) ==
    CHOOSE j \in 0..(Len(c.items) - 1) :
        /\ c.items[((c.pos + j) % Len(c.items)) + 1] \in wanted
        /\ \A i \in 0..(j - 1) : c.items[((c.pos + i) % Len(c.items)) + 1] \notin wanted

CycleSkip(c, n) == [c EXCEPT !.pos = (@ + n) % Len(c.items)]

\* ------------------------------------------------------------------ RoundRobinIterator
RoundRobin(stopping_mechanism, iteration_order) ==
    [class |-> "RoundRobin", stopping_mechanism |-> stopping_mechanism,
     iteration_order |-> iteration_order]

\* an __init__ that turns RESTART_UNTIL_ALL_DATASETS_EXHAUSTED away as well
RoundRobinIterator_unsupported_restart(strategy) ==
    strategy.stopping_mechanism \in
        {WRAP_AROUND_UNTIL_KILLED, RESTART_UNTIL_ALL_DATASETS_EXHAUSTED}

\* the stopping mechanism __init__ raises NotImplementedError for
RoundRobinIterator_unsupported(strategy) ==
    strategy.stopping_mechanism = WRAP_AROUND_UNTIL_KILLED

\* RoundRobinIterator.__init__; iteration_order None and [] both fall back to
\* the keys of the mapping
RoundRobinIterator_init(dls, keys, strategy) ==
    IF RoundRobinIterator_unsupported(strategy)
    THEN Result(NoObject, dls, NotImplementedError)
    ELSE LET round_robin_order ==
                 IF strategy.iteration_order # <<>>
                 THEN strategy.iteration_order ELSE KeysOf(keys)
         IN  Result([constructed |-> TRUE,
                     individual_iterators |-> [k \in Range(keys) |-> 0],
                     dataloader_cycle |-> Cycle(round_robin_order),
                     cur_dataloader |-> round_robin_order[1],
                     finished_dataloaders |-> <<>>],
                    IterAll(dls, Range(keys)),
                    Returned(EmptyDict))

\* a cursor that takes the next element of the cycle, finished or not
RoundRobinIterator_skipped_none(cycle, finished) == 0

\* a cursor that passes over one finished element at most ("if" for "while")
RoundRobinIterator_skipped_once(cycle, finished) ==
    IF CyclePeek(cycle) \in Range(finished) THEN 1 ELSE 0

\* "cur = next(cycle); while cur in finished: cur = next(cycle)": the elements
\* of the cycle passed over before the one that is taken
RoundRobinIterator_skipped(cycle, finished) ==
    CycleDistance(cycle, Range(cycle.items) \ Range(finished))

\* a test that lets ALL_DATASETS_EXHAUSTED alone go on after an exhaustion
RoundRobinIterator_stops_unless_all(strategy) ==
    strategy.stopping_mechanism # ALL_DATASETS_EXHAUSTED

\* the stopping mechanism under which __next__ raises StopIteration at the
\* first exhausted dataloader
RoundRobinIterator_stops(strategy) ==
    strategy.stopping_mechanism = SMALLEST_DATASET_EXHAUSTED

\* RoundRobinIterator.__next__
RECURSIVE RoundRobinIterator_next(_, _, _)
RoundRobinIterator_next(obj, dls, strategy) ==
    IF Len(obj.finished_dataloaders) = Cardinality(DOMAIN obj.individual_iterators)
    THEN Result(obj, dls, StopIteration)
    ELSE
    LET NotFinished(k) == ~Contains(obj.finished_dataloaders, k)
        c0 == obj.dataloader_cycle
    IN
    IF \A k \in Range(c0.items) : ~NotFinished(k)
    THEN \* the while loop finds every key of the cycle finished, for ever
         Result(obj, dls, Hang)
    ELSE
    LET j == RoundRobinIterator_skipped(c0, obj.finished_dataloaders)
        cur == CyclePeek(CycleSkip(c0, j))
        o1 == [obj EXCEPT !.dataloader_cycle = CycleSkip(c0, j + 1),
                          !.cur_dataloader = cur]
        pos == obj.individual_iterators[cur]
        d1 == NextOne(dls, cur)
    IN
    IF HasNext(dls, cur, pos)
    THEN Result([o1 EXCEPT !.individual_iterators[cur] = pos + 1], d1,
                Returned(cur :> pos))
    ELSE IF RoundRobinIterator_stops(strategy)
    THEN Result(o1, d1, StopIteration)
    ELSE
    LET o2 == [o1 EXCEPT !.finished_dataloaders = Append(@, cur)]
    IN
    IF Len(o2.finished_dataloaders) = Cardinality(DOMAIN o2.individual_iterators)
    THEN Result(o2, d1, StopIteration)
    ELSE RoundRobinIterator_next(o2, d1, strategy)

\* RoundRobinIterator.state_dict
RoundRobinIterator_state_dict(obj) ==
    [taken |-> TRUE,
     finished_dataloaders |-> obj.finished_dataloaders,
     cur_dataloader |-> obj.cur_dataloader]

\* RoundRobinIterator.load_state_dict.  "x not in cycle" reads the cycle up
\* to and including the first x, and never ends when x is not in it.
RoundRobinIterator_load_state_dict(obj, dls, state_dict) ==
    LET o1 == [obj EXCEPT !.finished_dataloaders = state_dict.finished_dataloaders]
        cur_dataloader == state_dict.cur_dataloader
        c0 == obj.dataloader_cycle
        Is == {cur_dataloader}
    IN
    IF ~Contains(c0.items, cur_dataloader)
    THEN Result(o1, dls, Hang)
    ELSE
    LET c1 == CycleSkip(c0, CycleDistance(c0, Is) + 1)
    IN
    IF o1.cur_dataloader = cur_dataloader
    THEN Result([o1 EXCEPT !.dataloader_cycle = c1], dls, Returned(EmptyDict))
    ELSE Result([o1 EXCEPT !.dataloader_cycle = CycleSkip(c1, CycleDistance(c1, Is) + 1),
                           !.cur_dataloader = cur_dataloader],
                dls, Returned(EmptyDict))

\* ------------------------------------------------------------------ AllDatasetBatchesIterator
AllDatasetBatches(stopping_mechanism) ==
    [class |-> "AllDatasetBatches", stopping_mechanism |-> stopping_mechanism]

\* a constructor that takes every stopping mechanism
AllDatasetBatchesIterator_unsupported_none(strategy) == FALSE

\* the stopping mechanism __init__ raises NotImplementedError for
AllDatasetBatchesIterator_unsupported(strategy) ==
    strategy.stopping_mechanism = WRAP_AROUND_UNTIL_KILLED

\* AllDatasetBatchesIterator.__init__
AllDatasetBatchesIterator_init(dls, keys, strategy) ==
    IF AllDatasetBatchesIterator_unsupported(strategy)
    THEN Result(NoObject, dls, NotImplementedError)
    ELSE Result([constructed |-> TRUE,
                 individual_iterators |-> [k \in Range(keys) |-> 0],
                 iterators_finished |-> <<>>],
                IterAll(dls, Range(keys)),
                Returned(EmptyDict))

\* a __next__ that returns its dict even when it is empty
AllDatasetBatchesIterator_return_any(batch_dict) == Returned(batch_dict)

\* "if len(batch_dict) == 0: raise StopIteration; return batch_dict"
AllDatasetBatchesIterator_return(batch_dict) ==
    IF DOMAIN batch_dict = {} THEN StopIteration ELSE Returned(batch_dict)

\* a __next__ that goes on whatever the stopping mechanism
AllDatasetBatchesIterator_stops_never(strategy) == FALSE

\* "raise StopIteration" at the first exhausted dataloader
AllDatasetBatchesIterator_stops(strategy) ==
    strategy.stopping_mechanism = SMALLEST_DATASET_EXHAUSTED

\* a handler that records and restarts whatever the stopping mechanism
AllDatasetBatchesIterator_restarts_always(strategy) == TRUE

\* "elif stopping_mechanism == RESTART_UNTIL_ALL_DATASETS_EXHAUSTED": the
\* only branch that touches iterators_finished
AllDatasetBatchesIterator_restarts(strategy) ==
    strategy.stopping_mechanism = RESTART_UNTIL_ALL_DATASETS_EXHAUSTED

\* an exhaustion that is never recorded
AllDatasetBatchesIterator_finish_never(obj, iterator) == obj

\* an append at every exhaustion
AllDatasetBatchesIterator_finish_again(obj, iterator) ==
    [obj EXCEPT !.iterators_finished = Append(@, iterator)]

\* "if iterator not in self.iterators_finished: append(iterator)"
AllDatasetBatchesIterator_finish(obj, iterator) ==
    IF Contains(obj.iterators_finished, iterator) THEN obj
    ELSE [obj EXCEPT !.iterators_finished = Append(@, iterator)]

\* the for loop of AllDatasetBatchesIterator.__next__ from the i-th key on,
\* and the test after it
RECURSIVE AllDatasetBatchesIterator_loop(_, _, _, _, _, _)
AllDatasetBatchesIterator_loop(obj, dls, strategy, keys, i, batch_dict) ==
    IF i > Len(keys)
    THEN Result(obj, dls, AllDatasetBatchesIterator_return(batch_dict))
    ELSE
    LET iterator == keys[i]
        pos == obj.individual_iterators[iterator]
        d1 == NextOne(dls, iterator)
    IN
    IF HasNext(dls, iterator, pos)
    THEN AllDatasetBatchesIterator_loop(
             [obj EXCEPT !.individual_iterators[iterator] = pos + 1], d1,
             strategy, keys, i + 1, (iterator :> pos) @@ batch_dict)
    ELSE IF AllDatasetBatchesIterator_stops(strategy)
    THEN Result(obj, d1, StopIteration)
    ELSE IF AllDatasetBatchesIterator_restarts(strategy)
    THEN LET o1 == AllDatasetBatchesIterator_finish(obj, iterator)
         IN  IF Len(o1.iterators_finished) = Cardinality(DOMAIN o1.individual_iterators)
             THEN Result(o1, d1, StopIteration)
             ELSE LET d2 == NextOne(IterOne(d1, iterator), iterator)
                  IN  IF HasNext(d2, iterator, 0)
                      THEN AllDatasetBatchesIterator_loop(
                               [o1 EXCEPT !.individual_iterators[iterator] = 1], d2,
                               strategy, keys, i + 1, (iterator :> 0) @@ batch_dict)
                      ELSE \* next() of the new iterator raises inside the handler
                           Result([o1 EXCEPT !.individual_iterators[iterator] = 0],
                                  d2, StopIteration)
    ELSE AllDatasetBatchesIterator_loop(obj, d1, strategy, keys, i + 1, batch_dict)

\* AllDatasetBatchesIterator.__next__
AllDatasetBatchesIterator_next(obj, dls, keys, strategy) ==
    AllDatasetBatchesIterator_loop(obj, dls, strategy, keys, 1, EmptyDict)

\* ------------------------------------------------------------------ InOrderIterator
InOrder(iteration_order) ==
    [class |-> "InOrder", iteration_order |-> iteration_order]

\* a new iterator of dataloader k
IterOf(k) == [key |-> k, pos |-> 0]

\* InOrderIterator.__init__
InOrderIterator_init(dls, keys, strategy) ==
    LET iteration_order ==
            IF strategy.iteration_order # <<>>
            THEN strategy.iteration_order ELSE KeysOf(keys)
    IN  Result([constructed |-> TRUE,
                iteration_order |-> iteration_order,
                cur_iter |-> IterOf(iteration_order[1]),
                cur_iterator_idx |-> 0,
                cur_iterator |-> iteration_order[1],
                num_iterators |-> Len(iteration_order),
                iterators_finished |-> 0],
               IterOne(dls, iteration_order[1]),
               Returned(EmptyDict))

\* list[i] of Python, i counted from 0, a negative i from the end
PyIndexOk(list, i) == -Len(list) <= i /\ i < Len(list)

PyIndex(list, i) == IF i >= 0 THEN list[i + 1] ELSE list[Len(list) + i + 1]

\* an advance that goes on with the iterator at the position it has
InOrderIterator_advance_no_iter(obj, nxt) ==
    [obj EXCEPT !.cur_iterator_idx = @ + 1,
                !.cur_iterator = nxt,
                !.cur_iter = [key |-> nxt, pos |-> obj.cur_iter.pos]]

\* "cur_iterator_idx += 1; cur_iterator = iteration_order[iterators_finished];
\* cur_iter = iter(...)" with that element nxt
InOrderIterator_advance(obj, nxt) ==
    [obj EXCEPT !.cur_iterator_idx = @ + 1,
                !.cur_iterator = nxt,
                !.cur_iter = IterOf(nxt)]

\* InOrderIterator.__next__
RECURSIVE InOrderIterator_next(_, _)
InOrderIterator_next(obj, dls) ==
    IF obj.iterators_finished = obj.num_iterators
    THEN Result(obj, dls, StopIteration)
    ELSE
    IF /\ obj.iterators_finished # obj.cur_iterator_idx
       /\ ~PyIndexOk(obj.iteration_order, obj.iterators_finished)
    THEN Result([obj EXCEPT !.cur_iterator_idx = obj.iterators_finished],
                dls, Raised("IndexError"))
    ELSE
    LET restored == obj.iterators_finished # obj.cur_iterator_idx
        key == PyIndex(obj.iteration_order, obj.iterators_finished)
        o1 == IF restored
              THEN [obj EXCEPT !.cur_iterator_idx = obj.iterators_finished,
                               !.cur_iterator = key,
                               !.cur_iter = IterOf(key)]
              ELSE obj
        d1 == IF restored THEN IterOne(dls, key) ELSE dls
        cur == o1.cur_iter
        d2 == NextOne(d1, cur.key)
    IN
    IF HasNext(d2, cur.key, cur.pos)
    THEN Result([o1 EXCEPT !.cur_iter.pos = @ + 1], d2,
                Returned(o1.cur_iterator :> cur.pos))
    ELSE
    LET o2 == [o1 EXCEPT !.iterators_finished = @ + 1]
    IN
    IF o2.iterators_finished = o2.num_iterators
    THEN Result(o2, d2, StopIteration)
    ELSE
    IF ~PyIndexOk(o2.iteration_order, o2.iterators_finished)
    THEN Result([o2 EXCEPT !.cur_iterator_idx = @ + 1], d2, Raised("IndexError"))
    ELSE
    LET nxt == PyIndex(o2.iteration_order, o2.iterators_finished)
    IN  InOrderIterator_next(InOrderIterator_advance(o2, nxt), IterOne(d2, nxt))

\* InOrderIterator.state_dict
InOrderIterator_state_dict(obj) ==
    [taken |-> TRUE,
     iterators_finished |-> obj.iterators_finished,
     cur_iterator |-> obj.cur_iterator]

\* a validation that looks at the count alone
InOrderIterator_rejects_count_only(obj, state_dict) ==
    state_dict.iterators_finished > Len(obj.iteration_order)

\* the state dicts load_state_dict warns about and does not restore
InOrderIterator_rejects(obj, state_dict) ==
    \/ ~Contains(obj.iteration_order, state_dict.cur_iterator)
    \/ state_dict.iterators_finished > Len(obj.iteration_order)

\* a load_state_dict that restores nothing
InOrderIterator_load_state_dict_ignored(obj, dls, state_dict) ==
    Result(obj, dls, Returned(EmptyDict))

\* a load_state_dict that sets the index along with the count
InOrderIterator_load_state_dict_eager(obj, dls, state_dict) ==
    IF InOrderIterator_rejects(obj, state_dict)
    THEN Result(obj, dls, Returned(EmptyDict))
    ELSE Result([obj EXCEPT !.iterators_finished = state_dict.iterators_finished,
                            !.cur_iterator_idx = state_dict.iterators_finished],
                dls, Returned(EmptyDict))

\* InOrderIterator.load_state_dict
InOrderIterator_load_state_dict(obj, dls, state_dict) ==
    IF InOrderIterator_rejects(obj, state_dict)
    THEN Result(obj, dls, Returned(EmptyDict))
    ELSE Result([obj EXCEPT !.iterators_finished = state_dict.iterators_finished],
                dls, Returned(EmptyDict))

\* ------------------------------------------------------------------ RandomizedBatchSamplerIterator
\* Optional[Dict[str, float]]: None, or a dict; every weight is positive, so
\* random.choices may give any of the names it is called with
None == [is_none |-> TRUE, dict |-> EmptyDict]
Some(d) == [is_none |-> FALSE, dict |-> d]

RandomizedBatchSampler(weights, stopping_mechanism, enforce_same_loader_across_ranks) ==
    [class |-> "RandomizedBatchSampler", weights |-> weights,
     stopping_mechanism |-> stopping_mechanism,
     enforce_same_loader_across_ranks |-> enforce_same_loader_across_ranks]

\* str ordering of the keys in use
KeyRank == ("a" :> 1) @@ ("b" :> 2) @@ ("c" :> 3) @@ ("z" :> 26)

\* sorted(keys)
RECURSIVE SortedList(_)
SortedList(ks) ==
    IF ks = {} THEN <<>>
    ELSE LET least == CHOOSE k \in ks : \A o \in ks : KeyRank[k] <= KeyRank[o]
         IN  <<least>> \o SortedList(ks \ {least})

\* list.index(x)
IndexOf(list, x) == CHOOSE i \in DOMAIN list : list[i] = x

\* torch.distributed as a call sees it: is_initialized(), the rank of the
\* process, and the values rank 0 has broadcast that this process has not yet
\* received
Dist(is_initialized, rank, incoming) ==
    [is_initialized |-> is_initialized, rank |-> rank, incoming |-> incoming]

\* a process that has not called init_process_group
NoDist == Dist(FALSE, 0, <<>>)

\* dist.new_group(backend="gloo", ranks=None): torch raises ValueError
\* ("Default process group has not been initialized") when
\* init_process_group has not been called
RandomizedBatchSamplerIterator_new_group_raises(dist) == ~dist.is_initialized

\* an assert that also takes a weight of a key that is no dataloader for a
\* failure
RandomizedBatchSamplerIterator_weights_missing_or_extra(names, weights) ==
    ~weights.is_none /\ Range(names) # DOMAIN weights.dict

\* "assert set(self._iterator_names).issubset(weights.keys())", made when
\* weights is not None, fails
RandomizedBatchSamplerIterator_weights_missing(names, weights) ==
    ~weights.is_none /\ ~(Range(names) \subseteq DOMAIN weights.dict)

\* RandomizedBatchSamplerIterator.__init__; _iterator_names_dict and
\* _process_group are only set with enforce_same_loader_across_ranks
RandomizedBatchSamplerIterator_init(dls, keys, strategy, dist) ==
    LET d1 == IterAll(dls, Range(keys))
        names == SortedList(Range(keys))
        weights == strategy.weights
        obj == [constructed |-> TRUE,
                _individual_iterators |-> [k \in Range(keys) |-> 0],
                _iterator_names |-> names,
                _iterator_weights |->
                    IF weights.is_none THEN None
                    ELSE Some([i \in DOMAIN names |-> weights.dict[names[i]]]),
                _iterator_is_exhausted |-> [i \in DOMAIN names |-> FALSE],
                _iterators_finished |-> <<>>]
    IN
    IF RandomizedBatchSamplerIterator_weights_missing(names, weights)
    THEN Result(NoObject, d1, AssertionError)
    ELSE IF ~strategy.enforce_same_loader_across_ranks
    THEN Result(obj, d1, Returned(EmptyDict))
    ELSE IF RandomizedBatchSamplerIterator_new_group_raises(dist)
    THEN Result(NoObject, d1, Raised("ValueError"))
    ELSE Result([_iterator_names_dict |->
                     [k \in Range(names) |-> IndexOf(names, k) - 1],
                 _process_group |-> "gloo"] @@ obj,
                d1, Returned(EmptyDict))

\* a random.choices that is given every name, exhausted or not
RandomizedBatchSamplerIterator_names_all(obj, strategy) == obj._iterator_names

\* the names random.choices is called with
RandomizedBatchSamplerIterator_names(obj, strategy) ==
    IF /\ strategy.stopping_mechanism # WRAP_AROUND_UNTIL_KILLED
       /\ ~obj._iterator_weights.is_none
    THEN SelectSeq(obj._iterator_names,
                   LAMBDA name :
                       ~obj._iterator_is_exhausted[IndexOf(obj._iterator_names, name)])
    ELSE obj._iterator_names

\* an append at every exhaustion
RandomizedBatchSamplerIterator_finish_again(obj, selected_key) ==
    [obj EXCEPT !._iterators_finished = Append(@, selected_key)]

\* "if selected_key not in self._iterators_finished: append(selected_key)"
RandomizedBatchSamplerIterator_finish(obj, selected_key) ==
    IF Contains(obj._iterators_finished, selected_key) THEN obj
    ELSE [obj EXCEPT !._iterators_finished = Append(@, selected_key)]

\* a handler without the branch that wraps around
RandomizedBatchSamplerIterator_wraps_never(strategy) == FALSE

\* "elif self.stopping_mechanism == WRAP_AROUND_UNTIL_KILLED"
RandomizedBatchSamplerIterator_wraps(strategy) ==
    strategy.stopping_mechanism = WRAP_AROUND_UNTIL_KILLED

\* an end check that takes one exhausted dataloader for all of them
RandomizedBatchSamplerIterator_ended_at_any(obj, strategy) ==
    \E i \in DOMAIN obj._iterator_names : obj._iterator_is_exhausted[i]

\* an end check under which __next__ never ends
RandomizedBatchSamplerIterator_ended_never(obj, strategy) == FALSE

\* the three tests __next__ starts with: it raises StopIteration when one holds
RandomizedBatchSamplerIterator_ended(obj, strategy) ==
    LET mode == strategy.stopping_mechanism
        exhausted == { obj._iterator_is_exhausted[i] : i \in DOMAIN obj._iterator_names }
    IN  \/ mode = SMALLEST_DATASET_EXHAUSTED /\ TRUE \in exhausted
        \/ mode = ALL_DATASETS_EXHAUSTED /\ FALSE \notin exhausted
        \/ /\ mode = RESTART_UNTIL_ALL_DATASETS_EXHAUSTED
           /\ Len(obj._iterators_finished) = Cardinality(DOMAIN obj._individual_iterators)

\* a __next__ that never takes the branch of the broadcast
RandomizedBatchSamplerIterator_broadcasts_never(strategy, dist) == FALSE

\* "if enforce_same_loader_across_ranks and dist.is_available() and
\* dist.is_initialized()" (the torch.distributed package is available)
RandomizedBatchSamplerIterator_broadcasts(strategy, dist) ==
    strategy.enforce_same_loader_across_ranks /\ dist.is_initialized

\* a broadcast after which every rank goes on with the key it sampled
RandomizedBatchSamplerIterator_broadcast_local(obj, strategy, dist, chosen, sampled) ==
    [waits |-> FALSE, self |-> obj, selected_key |-> sampled]

\* "key_idx = _iterator_names_dict[selected_key]; dist.broadcast(key_idx, 0);
\* selected_key = _iterator_names[key_idx.item()]" after random.choices gave
\* sampled: key_idx is the tensor held by the dict, which the broadcast
\* overwrites on every rank but 0.  The call waits when rank 0 has not yet
\* made the broadcast (the one after the Len(chosen) this call took part in).
RandomizedBatchSamplerIterator_broadcast(obj, strategy, dist, chosen, sampled) ==
    IF ~RandomizedBatchSamplerIterator_broadcasts(strategy, dist)
    THEN [waits |-> FALSE, self |-> obj, selected_key |-> sampled]
    ELSE IF dist.rank = 0
    THEN [waits |-> FALSE, self |-> obj,
          selected_key |-> obj._iterator_names[obj._iterator_names_dict[sampled] + 1]]
    ELSE IF Len(chosen) >= Len(dist.incoming)
    THEN [waits |-> TRUE, self |-> obj, selected_key |-> sampled]
    ELSE LET key_idx == dist.incoming[Len(chosen) + 1]
         IN  [waits |-> FALSE,
              self |-> [obj EXCEPT !._iterator_names_dict =
                            [k \in DOMAIN @ |-> IF k = sampled THEN key_idx ELSE @[k]]],
              selected_key |-> obj._iterator_names[key_idx + 1]]

\* a call that waits for a broadcast of rank 0
Waits == Raised("Waits")

\* RandomizedBatchSamplerIterator.__next__: every outcome the call can have,
\* random.choices giving any of the names it is called with.  chosen are the
\* keys selected so far in this call, budget the random.choices calls it may
\* still make.
RECURSIVE RandomizedBatchSamplerIterator_next(_, _, _, _, _, _)
RECURSIVE RandomizedBatchSamplerIterator_draw(_, _, _, _, _, _, _)

\* the call from "try: batch = next(...)" on, for one selected_key
RandomizedBatchSamplerIterator_draw(obj, dls, strategy, dist, chosen, budget, selected_key) ==
    LET mode == strategy.stopping_mechanism
        Out(o, d, r) == {[self |-> o, dls |-> d, ret |-> r, choices |-> chosen]}
        pos == obj._individual_iterators[selected_key]
        d1 == NextOne(dls, selected_key)
        d2 == NextOne(IterOne(d1, selected_key), selected_key)
    IN
    IF HasNext(dls, selected_key, pos)
    THEN Out([obj EXCEPT !._individual_iterators[selected_key] = pos + 1], d1,
             Returned(selected_key :> pos))
    ELSE IF mode = RESTART_UNTIL_ALL_DATASETS_EXHAUSTED
    THEN LET o1 == RandomizedBatchSamplerIterator_finish(obj, selected_key)
         IN  IF Len(o1._iterators_finished)
                    = Cardinality(DOMAIN o1._individual_iterators)
             THEN Out(o1, d1, StopIteration)
             ELSE IF HasNext(d2, selected_key, 0)
             THEN Out([o1 EXCEPT !._individual_iterators[selected_key] = 1], d2,
                      Returned(selected_key :> 0))
             ELSE Out([o1 EXCEPT !._individual_iterators[selected_key] = 0], d2,
                      StopIteration)
    ELSE IF RandomizedBatchSamplerIterator_wraps(strategy)
    THEN IF HasNext(d2, selected_key, 0)
         THEN Out([obj EXCEPT !._individual_iterators[selected_key] = 1], d2,
                  Returned(selected_key :> 0))
         ELSE Out([obj EXCEPT !._individual_iterators[selected_key] = 0], d2,
                  StopIteration)
    ELSE LET selected_index == IndexOf(obj._iterator_names, selected_key)
         IN  RandomizedBatchSamplerIterator_next(
                 [obj EXCEPT !._iterator_is_exhausted[selected_index] = TRUE],
                 d1, strategy, dist, chosen, budget - 1)

RandomizedBatchSamplerIterator_next(obj, dls, strategy, dist, chosen, budget) ==
    IF RandomizedBatchSamplerIterator_ended(obj, strategy)
    THEN {[self |-> obj, dls |-> dls, ret |-> StopIteration, choices |-> chosen]}
    ELSE IF budget = 0 THEN {}
    ELSE UNION { LET b == RandomizedBatchSamplerIterator_broadcast(
                              obj, strategy, dist, chosen, sampled)
                 IN  IF b.waits
                     THEN {[self |-> obj, dls |-> dls, ret |-> Waits, choices |-> chosen]}
                     ELSE RandomizedBatchSamplerIterator_draw(
                              b.self, dls, strategy, dist,
                              Append(chosen, b.selected_key), budget, b.selected_key) :
                 sampled \in
                     Range(RandomizedBatchSamplerIterator_names(obj, strategy)) }

\* ------------------------------------------------------------------ DataIterationStrategyRegistry
\* REGISTRY: the class of the strategy -> the class of the iterator
DataIterationStrategyRegistry_REGISTRY ==
    [RoundRobin |-> "RoundRobinIterator",
     AllDatasetBatches |-> "AllDatasetBatchesIterator",
     RandomizedBatchSampler |-> "RandomizedBatchSamplerIterator",
     InOrder |-> "InOrderIterator"]

\* a registry in which no class is found
DataIterationStrategyRegistry_registered_none(registry, strategy) == FALSE

\* "iteration_strategy.__class__ in cls.REGISTRY"
DataIterationStrategyRegistry_registered(registry, strategy) ==
    strategy.class \in DOMAIN registry

\* DataIterationStrategyRegistry.get: the registry it leaves and its outcome
DataIterationStrategyRegistry_get(registry, strategy) ==
    IF DataIterationStrategyRegistry_registered(registry, strategy)
    THEN [REGISTRY |-> registry, ret |-> Returned(registry[strategy.class])]
    ELSE [REGISTRY |-> registry, ret |-> NotImplementedError]

\* ------------------------------------------------------------------ inputs of a run
SeqsUpTo(S, n) == UNION { [1..m -> S] : m \in 1..n }

\* iteration_order: None, or a list of keys of the mapping
Orders(keys) == {<<>>} \cup SeqsUpTo(Range(keys), MaxOrderLen)

\* weights: None, a weight for every key, or a dict that lacks the first key
\* (and may hold a key of no dataloader)
WeightDicts(keys) ==
    { None,
      Some([k \in Range(keys) |-> 1]),
      Some([k \in Range(keys) \cup {UnknownKey} |-> 1]),
      Some([k \in Range(keys) \ {keys[1]} |-> 1]) }

RoundRobinStrategies(keys) ==
    { RoundRobin(m, o) : m \in StoppingMechanism, o \in Orders(keys) }

AllDatasetBatchesStrategies ==
    { AllDatasetBatches(m) : m \in StoppingMechanism }

RandomizedBatchSamplerStrategies(keys) ==
    { RandomizedBatchSampler(w, m, FALSE) :
          w \in WeightDicts(keys), m \in StoppingMechanism }

InOrderStrategies(keys) == { InOrder(o) : o \in Orders(keys) }

Strategies(keys) ==
    RoundRobinStrategies(keys) \cup AllDatasetBatchesStrategies
        \cup RandomizedBatchSamplerStrategies(keys) \cup InOrderStrategies(keys)

\* state dicts of another run
RoundRobinStateDicts(keys) ==
    { [taken |-> TRUE, finished_dataloaders |-> f, cur_dataloader |-> c] :
          f \in {<<>>, <<keys[1]>>}, c \in Range(keys) \cup {UnknownKey} }

InOrderStateDicts(obj) ==
    { [taken |-> TRUE, iterators_finished |-> n, cur_iterator |-> c] :
          n \in (-1)..(Len(obj.iteration_order) + 1),
          c \in Range(obj.iteration_order) \cup {UnknownKey} }

\* ------------------------------------------------------------------ the run
InitWith(classes) ==
    /\ dl_keys \in KeyLists
    /\ individual_dataloaders \in
           { [k \in Range(dl_keys) |-> Dataloader(lens[k])] :
                 lens \in { l \in [Range(dl_keys) -> 0..MaxLen] :
                               SumOver(l, Range(dl_keys)) <= MaxBatches } }
    /\ iteration_strategy \in { s \in Strategies(dl_keys) : s.class \in classes }
    /\ self = NoObject
    /\ pc = "new"
    /\ op = "none"
    /\ ret = NoCall
    /\ calls = 0
    /\ stopped = FALSE
    /\ returned = 0
    /\ records = <<>>
    /\ snapshot = NoStateDict
    /\ orig = NoObject
    /\ loaded = NoStateDict
    /\ dist_initialized = FALSE
    /\ ranks = <<>>
    /\ broadcasts = <<>>
    /\ REGISTRY = DataIterationStrategyRegistry_REGISTRY
    /\ got = <<>>

Init ==
    InitWith({"RoundRobin", "AllDatasetBatches", "RandomizedBatchSampler", "InOrder"})

\* a constructor call: the first object of the run, or the object built to
\* resume from the snapshot
Constructed(r) ==
    /\ pc \in {"new", "saved"}
    /\ self' = r.self
    /\ individual_dataloaders' = r.dls
    /\ ret' = r.ret
    /\ pc' = IF r.ret.exc = "None" THEN "ready" ELSE "raised"
    /\ op' = "__init__"
    /\ calls' = 0
    /\ stopped' = FALSE
    /\ returned' = 0
    /\ records' = <<>>
    /\ UNCHANGED << dl_keys, iteration_strategy, snapshot, orig, loaded, dist_vars, registry_vars >>

\* a __next__ call; an object built to resume is loaded before it is used
Nexted(r, keep) ==
    /\ pc = "ready"
    /\ snapshot.taken => loaded.taken
    /\ calls < (IF loaded.taken THEN MaxLoadedCalls ELSE MaxCalls)
    /\ self' = r.self
    /\ individual_dataloaders' = r.dls
    /\ ret' = r.ret
    /\ pc' = IF r.ret.exc = "Hang" THEN "hung" ELSE "ready"
    /\ op' = "__next__"
    /\ calls' = calls + 1
    /\ stopped' = (stopped \/ r.ret.exc # "None")
    /\ returned' = IF ~stopped /\ r.ret.exc = "None" THEN returned + 1 ELSE returned
    /\ records' = IF keep /\ ~stopped /\ r.ret.exc = "None"
                  THEN Append(records, r.ret.value) ELSE records
    /\ UNCHANGED << dl_keys, iteration_strategy, snapshot, orig, loaded, dist_vars, registry_vars >>

\* a state_dict call, after which the run is interrupted
Saved(sd) ==
    /\ pc = "ready"
    /\ ~snapshot.taken
    /\ snapshot' = sd
    /\ orig' = self
    /\ pc' = "saved"
    /\ op' = "state_dict"
    /\ ret' = Returned(EmptyDict)
    /\ individual_dataloaders' = AtCall(individual_dataloaders)
    /\ UNCHANGED << dl_keys, iteration_strategy, self,
                    calls, stopped, returned, records, loaded, dist_vars, registry_vars >>

\* a load_state_dict call: of the snapshot on the object built to resume, or
\* of another run's state dict on an object at any step
Loaded(r, sd) ==
    /\ pc = "ready"
    /\ snapshot.taken => calls = 0
    /\ ~loaded.taken
    /\ self' = r.self
    /\ individual_dataloaders' = r.dls
    /\ ret' = r.ret
    /\ pc' = IF r.ret.exc = "Hang" THEN "hung" ELSE "ready"
    /\ op' = "load_state_dict"
    /\ loaded' = sd
    /\ UNCHANGED << dl_keys, iteration_strategy, calls, stopped, returned,
                    records, snapshot, orig, dist_vars,
                    registry_vars >>

\* the state dict handed to load_state_dict: the snapshot of this run, or one
\* of another run when this run took none
StateDictsFor(foreign) == IF snapshot.taken THEN {snapshot} ELSE foreign

RoundRobinInit ==
    /\ Class = "RoundRobin"
    /\ Constructed(RoundRobinIterator_init(AtCall(individual_dataloaders), dl_keys,
                                           iteration_strategy))

RoundRobinNext ==
    /\ Class = "RoundRobin"
    /\ Nexted(RoundRobinIterator_next(self, AtCall(individual_dataloaders),
                                      iteration_strategy), TRUE)

RoundRobinStateDict ==
    /\ Class = "RoundRobin"
    /\ Saved(RoundRobinIterator_state_dict(self))

RoundRobinLoadStateDict ==
    /\ Class = "RoundRobin"
    /\ pc = "ready"
    /\ \E sd \in StateDictsFor(RoundRobinStateDicts(dl_keys)) :
           Loaded(RoundRobinIterator_load_state_dict(self, AtCall(individual_dataloaders), sd), sd)

AllDatasetBatchesInit ==
    /\ Class = "AllDatasetBatches"
    /\ Constructed(AllDatasetBatchesIterator_init(AtCall(individual_dataloaders), dl_keys,
                                                  iteration_strategy))

AllDatasetBatchesNext ==
    /\ Class = "AllDatasetBatches"
    /\ Nexted(AllDatasetBatchesIterator_next(self, AtCall(individual_dataloaders), dl_keys,
                                             iteration_strategy), TRUE)

RandomizedBatchSamplerInit ==
    /\ Class = "RandomizedBatchSampler"
    /\ Constructed(RandomizedBatchSamplerIterator_init(AtCall(individual_dataloaders), dl_keys,
                                                       iteration_strategy, NoDist))

RandomizedBatchSamplerNext ==
    /\ Class = "RandomizedBatchSampler"
    /\ pc = "ready"
    /\ \E r \in RandomizedBatchSamplerIterator_next(
                     self, AtCall(individual_dataloaders), iteration_strategy,
                     NoDist, <<>>, MaxChoices) :
           Nexted(r, FALSE)

InOrderInit ==
    /\ Class = "InOrder"
    /\ Constructed(InOrderIterator_init(AtCall(individual_dataloaders), dl_keys,
                                        iteration_strategy))

InOrderNext ==
    /\ Class = "InOrder"
    /\ Nexted(InOrderIterator_next(self, AtCall(individual_dataloaders)), TRUE)

InOrderStateDict ==
    /\ Class = "InOrder"
    /\ Saved(InOrderIterator_state_dict(self))

InOrderLoadStateDict ==
    /\ Class = "InOrder"
    /\ pc = "ready"
    /\ \E sd \in StateDictsFor(InOrderStateDicts(self)) :
           Loaded(InOrderIterator_load_state_dict(self, AtCall(individual_dataloaders), sd), sd)

Next ==
    \/ RoundRobinInit
    \/ RoundRobinNext
    \/ RoundRobinStateDict
    \/ RoundRobinLoadStateDict
    \/ AllDatasetBatchesInit
    \/ AllDatasetBatchesNext
    \/ RandomizedBatchSamplerInit
    \/ RandomizedBatchSamplerNext
    \/ InOrderInit
    \/ InOrderNext
    \/ InOrderStateDict
    \/ InOrderLoadStateDict

Spec == Init /\ [][Next]_vars

\* construction and iteration alone, of every class
NextIteration ==
    \/ RoundRobinInit
    \/ RoundRobinNext
    \/ AllDatasetBatchesInit
    \/ AllDatasetBatchesNext
    \/ RandomizedBatchSamplerInit
    \/ RandomizedBatchSamplerNext
    \/ InOrderInit
    \/ InOrderNext

SpecIteration == Init /\ [][NextIteration]_vars

\* the classes with a state dict: iteration, checkpoint, resumption
CheckpointClasses == {"RoundRobin", "InOrder"}

InitCheckpoint == InitWith(CheckpointClasses)

NextCheckpoint ==
    \/ RoundRobinInit
    \/ RoundRobinNext
    \/ RoundRobinStateDict
    \/ RoundRobinLoadStateDict
    \/ InOrderInit
    \/ InOrderNext
    \/ InOrderStateDict
    \/ InOrderLoadStateDict

SpecCheckpoint == InitCheckpoint /\ [][NextCheckpoint]_vars

\* the key of a dict with one entry
KeyOf(d) == CHOOSE k \in DOMAIN d : TRUE

\* ------------------------------------------------------------------ a distributed run
\* every rank builds a RandomizedBatchSamplerIterator with
\* enforce_same_loader_across_ranks over its own dataloaders (same keys, the
\* lengths its own) and calls __next__ on it
Ranks == {0, 1}

EnforcedStrategies(keys) ==
    { RandomizedBatchSampler(w, m, TRUE) :
          w \in {None, Some([k \in Range(keys) |-> 1])}, m \in StoppingMechanism }

\* the process of a rank before it has built its iterator; selected are the
\* keys its __next__ calls drew from, keys those of the dicts they returned
Process(dls) ==
    [self |-> NoObject, individual_dataloaders |-> dls, pc |-> "new",
     ret |-> NoCall, calls |-> 0, stopped |-> FALSE,
     selected |-> <<>>, keys |-> <<>>]

InitRanks ==
    /\ dl_keys \in { ks \in KeyLists : Len(ks) <= 2 /\ ks[1] = "a" }
    /\ iteration_strategy \in EnforcedStrategies(dl_keys)
    /\ dist_initialized \in BOOLEAN
    /\ ranks \in [Ranks ->
                     { Process([k \in Range(dl_keys) |-> Dataloader(lens[k])]) :
                           lens \in { l \in [Range(dl_keys) -> 0..MaxLen] :
                                         SumOver(l, Range(dl_keys)) <= MaxRankBatches } }]
    /\ broadcasts = <<>>
    /\ REGISTRY = DataIterationStrategyRegistry_REGISTRY
    /\ got = <<>>
    /\ individual_dataloaders = [k \in Range(dl_keys) |-> Dataloader(0)]
    /\ self = NoObject
    /\ pc = "new"
    /\ op = "none"
    /\ ret = NoCall
    /\ calls = 0
    /\ stopped = FALSE
    /\ returned = 0
    /\ records = <<>>
    /\ snapshot = NoStateDict
    /\ orig = NoObject
    /\ loaded = NoStateDict

\* what is left unchanged by the call of a rank
RankFrame ==
    UNCHANGED << dl_keys, individual_dataloaders, iteration_strategy, self, pc, op,
                 ret, calls, stopped, returned, records, snapshot, orig, loaded,
                 dist_initialized, registry_vars >>

\* rank r builds its iterator
RankInit ==
    \E r \in Ranks :
        LET p == ranks[r]
            res == RandomizedBatchSamplerIterator_init(
                       AtCall(p.individual_dataloaders), dl_keys, iteration_strategy,
                       Dist(dist_initialized, r, <<>>))
        IN  /\ p.pc = "new"
            /\ ranks' = [ranks EXCEPT ![r] =
                   [self |-> res.self, individual_dataloaders |-> res.dls,
                    pc |-> IF res.ret.exc = "None" THEN "ready" ELSE "raised",
                    ret |-> res.ret, calls |-> 0, stopped |-> FALSE,
                    selected |-> <<>>, keys |-> <<>>]]
            /\ UNCHANGED broadcasts
            /\ RankFrame

\* the index rank 0 broadcasts for a key
KeyIdx(names, key) == IndexOf(names, key) - 1

\* rank r calls __next__; the call is made when rank 0 has made the
\* broadcasts it takes part in
RankNext ==
    \E r \in Ranks :
        LET p == ranks[r]
            incoming == SubSeq(broadcasts, Len(p.selected) + 1, Len(broadcasts))
        IN  /\ p.pc = "ready"
            /\ p.calls < MaxRankCalls
            /\ \E o \in RandomizedBatchSamplerIterator_next(
                            p.self, AtCall(p.individual_dataloaders), iteration_strategy,
                            Dist(dist_initialized, r, incoming), <<>>, MaxChoices) :
                   /\ o.ret # Waits
                   /\ ranks' = [ranks EXCEPT ![r] =
                          [self |-> o.self, individual_dataloaders |-> o.dls,
                           pc |-> "ready", ret |-> o.ret, calls |-> p.calls + 1,
                           stopped |-> (p.stopped \/ o.ret.exc # "None"),
                           selected |-> p.selected \o o.choices,
                           keys |-> IF ~p.stopped /\ o.ret.exc = "None"
                                    THEN Append(p.keys, KeyOf(o.ret.value))
                                    ELSE p.keys]]
                   /\ broadcasts' =
                          IF r = 0 /\ RandomizedBatchSamplerIterator_broadcasts(
                                          iteration_strategy,
                                          Dist(dist_initialized, r, incoming))
                          THEN broadcasts \o
                                   [i \in DOMAIN o.choices |->
                                        KeyIdx(p.self._iterator_names, o.choices[i])]
                          ELSE broadcasts
            /\ RankFrame

NextRanks ==
    \/ RankInit
    \/ RankNext

SpecRanks == InitRanks /\ [][NextRanks]_vars

\* ------------------------------------------------------------------ lookups in the registry
\* strategies of a class that is not in REGISTRY: an instance of the base
\* dataclass, and one of a subclass of RoundRobin
OtherStrategies ==
    { [class |-> "DataIterationStrategy"],
      [class |-> "RoundRobinSubclass",
       stopping_mechanism |-> ALL_DATASETS_EXHAUSTED, iteration_order |-> <<>>] }

InitRegistry ==
    /\ InitWith({"AllDatasetBatches"})
    /\ \A k \in Range(dl_keys) : individual_dataloaders[k].len = 0

\* a get call with a strategy of any class
RegistryGet ==
    /\ Len(got) < MaxGets
    /\ \E s \in Strategies(dl_keys) \cup OtherStrategies :
           LET r == DataIterationStrategyRegistry_get(REGISTRY, s)
           IN  /\ REGISTRY' = r.REGISTRY
               /\ got' = Append(got, [class |-> s.class, ret |-> r.ret])
    /\ UNCHANGED << dl_keys, individual_dataloaders, iteration_strategy, self, pc, op,
                    ret, calls, stopped, returned, records, snapshot, orig, loaded,
                    dist_vars >>

NextRegistry == RegistryGet

SpecRegistry == InitRegistry /\ [][NextRegistry]_vars

\* ------------------------------------------------------------------ state dicts in one process
\* A run in which the state dict stays in the process of the iterator: the
\* dict state_dict returns holds the list object self.finished_dataloaders,
\* and load_state_dict binds self.finished_dataloaders to the list object of
\* the dict passed to it, so an append made by __next__ is an append to the
\* list of every state dict taken or loaded so far.  (A state dict of another
\* run is loaded before a state dict of this run is taken, so that every list
\* taken or loaded is the list self.finished_dataloaders is bound to.)
InitShared == InitWith({"RoundRobin"})

\* the state dict sd once the list it shares with obj has the content obj has
RoundRobinIterator_shared(sd, obj) ==
    IF sd.taken
    THEN [sd EXCEPT !.finished_dataloaders = obj.finished_dataloaders]
    ELSE sd

\* a state_dict call on an iterator that is then used further
RoundRobinStateDictKept ==
    /\ Class = "RoundRobin"
    /\ pc = "ready"
    /\ ~snapshot.taken
    /\ snapshot' = RoundRobinIterator_state_dict(self)
    /\ orig' = self
    /\ op' = "state_dict"
    /\ ret' = Returned(EmptyDict)
    /\ individual_dataloaders' = AtCall(individual_dataloaders)
    /\ UNCHANGED << dl_keys, iteration_strategy, self, pc, calls, stopped,
                    returned, records, loaded, dist_vars, registry_vars >>

\* a load_state_dict call with the state dict of another run
RoundRobinLoadStateDictShared ==
    /\ ~snapshot.taken
    /\ RoundRobinLoadStateDict

\* a __next__ call
RoundRobinNextShared ==
    /\ Class = "RoundRobin"
    /\ pc = "ready"
    /\ calls < MaxCalls
    /\ LET r == RoundRobinIterator_next(self, AtCall(individual_dataloaders),
                                        iteration_strategy)
       IN  /\ self' = r.self
           /\ individual_dataloaders' = r.dls
           /\ ret' = r.ret
           /\ pc' = IF r.ret.exc = "Hang" THEN "hung" ELSE "ready"
           /\ stopped' = (stopped \/ r.ret.exc # "None")
           /\ returned' = IF ~stopped /\ r.ret.exc = "None" THEN returned + 1 ELSE returned
           /\ records' = IF ~stopped /\ r.ret.exc = "None"
                         THEN Append(records, r.ret.value) ELSE records
           /\ snapshot' = RoundRobinIterator_shared(snapshot, r.self)
           /\ loaded' = RoundRobinIterator_shared(loaded, r.self)
    /\ op' = "__next__"
    /\ calls' = calls + 1
    /\ UNCHANGED << dl_keys, iteration_strategy, orig, dist_vars, registry_vars >>

NextShared ==
    \/ RoundRobinInit
    \/ RoundRobinNextShared
    \/ RoundRobinStateDictKept
    \/ RoundRobinLoadStateDictShared

SpecShared == InitShared /\ [][NextShared]_vars

\* ------------------------------------------------------------------ the sampler, selection by selection
\* A run of a RandomizedBatchSamplerIterator in which every random.choices
\* call of a __next__ call is a step of its own: pc is "choosing" from the
\* end checks of __next__ to its return.  The __next__ calls are not counted
\* (calls stays 0): the run has no bound on their number.
SamplingStrategies(keys) ==
    { RandomizedBatchSampler(w, m, FALSE) :
          w \in {None, Some([k \in Range(keys) |-> 1])},
          m \in StoppingMechanism \ {WRAP_AROUND_UNTIL_KILLED} }

InitSampling ==
    /\ InitWith({"RandomizedBatchSampler"})
    /\ iteration_strategy \in SamplingStrategies(dl_keys)
    /\ \A k \in Range(dl_keys) : individual_dataloaders[k].len > 0

\* what a random.choices step leaves unchanged
SamplingFrame ==
    UNCHANGED << dl_keys, iteration_strategy, op, calls, returned, records, snapshot,
                 orig, loaded, dist_vars, registry_vars >>

\* a __next__ call, up to its end checks
SamplerCalled ==
    /\ Class = "RandomizedBatchSampler"
    /\ pc = "ready"
    /\ op' = "__next__"
    /\ IF RandomizedBatchSamplerIterator_ended(self, iteration_strategy)
       THEN /\ ret' = StopIteration
            /\ stopped' = TRUE
            /\ pc' = "ready"
       ELSE /\ ret' = ret
            /\ stopped' = stopped
            /\ pc' = "choosing"
    /\ individual_dataloaders' = AtCall(individual_dataloaders)
    /\ UNCHANGED << self, dl_keys, iteration_strategy, calls, returned, records,
                    snapshot, orig, loaded, dist_vars, registry_vars >>

\* random.choices gives key k, and the call goes on to its return or, after
\* a failed draw under SMALLEST_DATASET_EXHAUSTED or ALL_DATASETS_EXHAUSTED
\* that does not end it, to its next random.choices
SamplerChosen(k) ==
    /\ Class = "RandomizedBatchSampler"
    /\ pc = "choosing"
    /\ k \in Range(RandomizedBatchSamplerIterator_names(self, iteration_strategy))
    /\ LET dls == AtCall(individual_dataloaders)
           outs == RandomizedBatchSamplerIterator_draw(
                       self, dls, iteration_strategy, NoDist, <<k>>, 1, k)
           selected_index == IndexOf(self._iterator_names, k)
       IN  IF outs # {}
           THEN \E o \in outs :
                    /\ self' = o.self
                    /\ individual_dataloaders' = o.dls
                    /\ ret' = o.ret
                    /\ stopped' = (stopped \/ o.ret = StopIteration)
                    /\ pc' = "ready"
           ELSE /\ self' = [self EXCEPT !._iterator_is_exhausted[selected_index] = TRUE]
                /\ individual_dataloaders' = NextOne(dls, k)
                /\ ret' = ret
                /\ stopped' = stopped
                /\ pc' = "choosing"
    /\ SamplingFrame

\* a random.choices call of the __next__ call under way
SamplerChoice == \E k \in Range(dl_keys) : SamplerChosen(k)

NextSampling ==
    \/ RandomizedBatchSamplerInit
    \/ SamplerCalled
    \/ SamplerChoice

\* the caller goes on calling __next__, and random.choices is fair: a key
\* that is among its names again and again is selected in the end
SpecSampling ==
    /\ InitSampling
    /\ [][NextSampling]_vars
    /\ WF_vars(RandomizedBatchSamplerInit)
    /\ WF_vars(SamplerCalled)
    /\ \A k \in {"a", "b", "c"} : SF_vars(SamplerChosen(k))

\* ------------------------------------------------------------------ EarlyStopping
\* The callback of every rank of a distributed run, its _maybe_stop called at
\* the end of a step or an epoch of the loop of that rank.
World == {0, 1, 2}

\* EarlyStopping.__init__: _rank is get_global_rank()
EarlyStopping_init(rank) == [_rank |-> rank]

\* a _maybe_stop without "if self._rank == 0": every rank reads and checks
EarlyStopping_should_stop_on_every_rank(callback, unit, check) ==
    IF ~unit.has_monitored_attr
    THEN [raised |-> TRUE, read |-> FALSE, checked |-> FALSE, should_stop |-> FALSE]
    ELSE [raised |-> FALSE, read |-> TRUE, checked |-> TRUE, should_stop |-> check]

\* _maybe_stop up to its sync_bool call: rank 0 raises RuntimeError when the
\* unit has no attribute of the monitored name, and reads the attribute and
\* calls _esc.check on it otherwise, check being what that call returns; the
\* other ranks set should_stop to False
EarlyStopping_should_stop(callback, unit, check) ==
    IF callback._rank = 0
    THEN IF ~unit.has_monitored_attr
         THEN [raised |-> TRUE, read |-> FALSE, checked |-> FALSE, should_stop |-> FALSE]
         ELSE [raised |-> FALSE, read |-> TRUE, checked |-> TRUE, should_stop |-> check]
    ELSE [raised |-> FALSE, read |-> FALSE, checked |-> FALSE, should_stop |-> FALSE]

\* sync_bool(val, coherence_mode="rank_zero"): a broadcast from rank 0, which
\* gives every rank the val of rank 0; a rank other than 0 waits in it for the
\* broadcast rank 0 makes in its own call
sync_bool(val, dist) ==
    IF ~dist.is_initialized
    THEN [waits |-> FALSE, value |-> val, sent |-> <<>>]
    ELSE IF dist.rank = 0
    THEN [waits |-> FALSE, value |-> val, sent |-> << val >>]
    ELSE IF dist.incoming = <<>>
    THEN [waits |-> TRUE, value |-> val, sent |-> <<>>]
    ELSE [waits |-> FALSE, value |-> Head(dist.incoming), sent |-> <<>>]

\* the process of a rank: its callback, unit and state; the _esc.check results
\* and the decisions of the _maybe_stop calls it has made, in order
TrainingProcess(rank, has_monitored_attr) ==
    [callback |-> EarlyStopping_init(rank),
     unit |-> [has_monitored_attr |-> has_monitored_attr],
     state |-> [_should_stop |-> FALSE],
     pc |-> "idle", should_stop |-> FALSE, reads |-> 0,
     checked |-> <<>>, decisions |-> <<>>]

InitEarlyStopping ==
    /\ dist_initialized = TRUE
    /\ ranks \in { [r \in World |-> TrainingProcess(r, has[r])] :
                       has \in [World -> BOOLEAN] }
    /\ broadcasts = <<>>
    /\ REGISTRY = DataIterationStrategyRegistry_REGISTRY
    /\ got = <<>>
    /\ dl_keys = << "a" >>
    /\ iteration_strategy = InOrder(<<>>)
    /\ individual_dataloaders = [k \in Range(dl_keys) |-> Dataloader(0)]
    /\ self = NoObject
    /\ pc = "new"
    /\ op = "none"
    /\ ret = NoCall
    /\ calls = 0
    /\ stopped = FALSE
    /\ returned = 0
    /\ records = <<>>
    /\ snapshot = NoStateDict
    /\ orig = NoObject
    /\ loaded = NoStateDict

\* a hook of rank r calls _maybe_stop, which runs to its sync_bool call; the
\* loop of a rank whose state.stop() was called makes no further call
MaybeStop ==
    \E r \in World : \E check \in BOOLEAN :
        LET p == ranks[r]
            o == EarlyStopping_should_stop(p.callback, p.unit, check)
        IN  /\ p.pc = "idle"
            /\ ~p.state._should_stop
            /\ Len(p.decisions) < MaxHooks
            /\ ranks' = [ranks EXCEPT ![r] =
                   [p EXCEPT !.pc = IF o.raised THEN "raised" ELSE "sync_bool",
                             !.should_stop = o.should_stop,
                             !.reads = IF o.read THEN @ + 1 ELSE @,
                             !.checked = IF o.checked THEN Append(@, check) ELSE @]]
            /\ UNCHANGED broadcasts
            /\ RankFrame

\* the sync_bool call of rank r returns and _maybe_stop runs to its end:
\* state.stop() when the value returned is True
SyncBoolReturned ==
    \E r \in World :
        LET p == ranks[r]
            incoming == SubSeq(broadcasts, Len(p.decisions) + 1, Len(broadcasts))
            o == sync_bool(p.should_stop, Dist(dist_initialized, r, incoming))
        IN  /\ p.pc = "sync_bool"
            /\ ~o.waits
            /\ ranks' = [ranks EXCEPT ![r] =
                   [p EXCEPT !.pc = "idle",
                             !.should_stop = o.value,
                             !.state = [_should_stop |-> (@._should_stop \/ o.value)],
                             !.decisions = Append(@, o.value)]]
            /\ broadcasts' = broadcasts \o o.sent
            /\ RankFrame

NextEarlyStopping ==
    \/ MaybeStop
    \/ SyncBoolReturned

SpecEarlyStopping == InitEarlyStopping /\ [][NextEarlyStopping]_vars

\* ------------------------------------------------------------------ properties
Keys == Range(dl_keys)

LenOf(k) == individual_dataloaders[k].len

Shortest == CHOOSE m \in { LenOf(k) : k \in Keys } : \A k \in Keys : m <= LenOf(k)

Longest == CHOOSE m \in { LenOf(k) : k \in Keys } : \A k \in Keys : m >= LenOf(k)

Total == SumOver([k \in Keys |-> LenOf(k)], Keys)

\* __next__ of an object of class c under stopping mechanism m has raised
Ended(c, m) ==
    /\ Class = c
    /\ iteration_strategy.stopping_mechanism = m
    /\ pc = "ready"
    /\ stopped

DefaultOrder == iteration_strategy.iteration_order = <<>>

\* the dataloaders before the first shortest one, in the order of the mapping
BeforeFirstShortest ==
    (CHOOSE i \in DOMAIN dl_keys :
         /\ LenOf(dl_keys[i]) = Shortest
         /\ \A j \in 1..(i - 1) : LenOf(dl_keys[j]) # Shortest) - 1

\* C1 as stated: under SMALLEST_DATASET_EXHAUSTED the number of dicts returned
\* before the first StopIteration is the length of the shortest dataloader, for
\* RoundRobin (here in its default order), AllDatasetBatches and
\* RandomizedBatchSampler alike.
SmallestExhaustedReturnsShortest ==
    \A c \in {"RoundRobin", "AllDatasetBatches", "RandomizedBatchSampler"} :
        (/\ Ended(c, SMALLEST_DATASET_EXHAUSTED)
         /\ c = "RoundRobin" => DefaultOrder)
            => returned = Shortest

\* C1 amended: under SMALLEST_DATASET_EXHAUSTED the iteration ends at the first
\* draw from an exhausted dataloader.  AllDatasetBatches returns as many dicts
\* as the shortest dataloader has batches; RoundRobin in the default order
\* returns n * m + p dicts (m the shortest length, n the number of dataloaders,
\* p the number of dataloaders in front of the first shortest one) and in any
\* order at least m; RandomizedBatchSampler returns at least m dicts and at
\* most the batches of all dataloaders together.
SmallestExhaustedCount ==
    /\ Ended("AllDatasetBatches", SMALLEST_DATASET_EXHAUSTED) => returned = Shortest
    /\ Ended("RoundRobin", SMALLEST_DATASET_EXHAUSTED) =>
           /\ returned >= Shortest
           /\ DefaultOrder =>
                  returned = Len(dl_keys) * Shortest + BeforeFirstShortest
    /\ Ended("RandomizedBatchSampler", SMALLEST_DATASET_EXHAUSTED) =>
           returned >= Shortest
    /\ (/\ Class = "RandomizedBatchSampler"
        /\ iteration_strategy.stopping_mechanism = SMALLEST_DATASET_EXHAUSTED)
           => returned <= Total

\* C1 witness: a round robin over three dataloaders that ended after more
\* dicts than the shortest dataloader holds
SmallestExhaustedCountWitness ==
    /\ Ended("RoundRobin", SMALLEST_DATASET_EXHAUSTED)
    /\ DefaultOrder
    /\ Len(dl_keys) = 3
    /\ Shortest = 1
    /\ returned = 4

\* the keys of the dicts returned so far
RecordKeys == [i \in DOMAIN records |-> KeyOf(records[i])]

\* batches of dataloader k not yet in the first n dicts returned
LeftAfter(k, n) ==
    LenOf(k) - Cardinality({ i \in 1..n : k \in DOMAIN records[i] })

\* position of key k in the mapping
PlaceOf(k) == CHOOSE i \in DOMAIN dl_keys : dl_keys[i] = k

\* the first key at or after place p of the mapping, going round, whose
\* dataloader has a batch left after the first n dicts
NextWithBatches(p, n) ==
    LET m == Len(dl_keys)
        at(j) == dl_keys[((p - 1 + j) % m) + 1]
        j == CHOOSE j \in 0..(m - 1) :
                 /\ LeftAfter(at(j), n) > 0
                 /\ \A i \in 0..(j - 1) : LeftAfter(at(i), n) = 0
    IN  at(j)

RoundRobinAllExhausted ==
    /\ Class = "RoundRobin"
    /\ iteration_strategy.stopping_mechanism = ALL_DATASETS_EXHAUSTED
    /\ DefaultOrder
    /\ pc = "ready"
    /\ ~loaded.taken

\* C2: RoundRobin with ALL_DATASETS_EXHAUSTED in the default order returns as
\* many dicts as all dataloaders hold batches, the key of each dict is the
\* first key after the key of the dict before it, going round the mapping,
\* whose dataloader still has a batch (the first dict: from the first key on);
\* for a of length 1 and b of length 3 the keys are a, b, b, b.
RoundRobinVisitsInCyclicOrder ==
    RoundRobinAllExhausted =>
        /\ stopped => returned = Total
        /\ \A i \in DOMAIN records :
               /\ Cardinality(DOMAIN records[i]) = 1
               /\ RecordKeys[i] =
                      NextWithBatches(
                          IF i = 1 THEN 1 ELSE PlaceOf(RecordKeys[i - 1]) + 1, i - 1)
        /\ (/\ dl_keys = <<"a", "b">>
            /\ LenOf("a") = 1
            /\ LenOf("b") = 3
            /\ stopped) => RecordKeys = <<"a", "b", "b", "b">>

\* C2 witness: the run over a (1 batch) and b (3 batches) has ended
RoundRobinVisitsInCyclicOrderWitness ==
    /\ RoundRobinAllExhausted
    /\ dl_keys = <<"a", "b">>
    /\ LenOf("a") = 1
    /\ LenOf("b") = 3
    /\ stopped
    /\ returned = 4

AllDatasetBatchesAllExhausted ==
    /\ Class = "AllDatasetBatches"
    /\ iteration_strategy.stopping_mechanism = ALL_DATASETS_EXHAUSTED
    /\ pc = "ready"

\* C3: AllDatasetBatches with ALL_DATASETS_EXHAUSTED: the k-th dict returned
\* holds exactly the keys of the dataloaders of length k or more (batch k of
\* each), as many dicts are returned as the longest dataloader has batches,
\* and the call after the last dict raises StopIteration; for a of length 1
\* and b of length 3 the key sets are {a, b}, {b}, {b}.
AllDatasetBatchesReturnsActiveKeys ==
    AllDatasetBatchesAllExhausted =>
        /\ \A k \in DOMAIN records :
               /\ DOMAIN records[k] = { key \in Keys : LenOf(key) >= k }
               /\ \A key \in DOMAIN records[k] : records[k][key] = k - 1
        /\ returned <= Longest
        /\ stopped => returned = Longest
        /\ calls > Longest => stopped
        /\ (/\ dl_keys = <<"a", "b">>
            /\ LenOf("a") = 1
            /\ LenOf("b") = 3
            /\ stopped) =>
               [k \in DOMAIN records |-> DOMAIN records[k]] = <<{"a", "b"}, {"b"}, {"b"}>>

\* C3 witness: the run over a (1 batch) and b (3 batches) has ended
AllDatasetBatchesReturnsActiveKeysWitness ==
    /\ AllDatasetBatchesAllExhausted
    /\ dl_keys = <<"a", "b">>
    /\ LenOf("a") = 1
    /\ LenOf("b") = 3
    /\ stopped
    /\ returned = 3
    /\ calls = 4

\* the order an InOrder or RoundRobin strategy iterates in
Order ==
    IF iteration_strategy.iteration_order # <<>>
    THEN iteration_strategy.iteration_order ELSE dl_keys

\* every batch of dataloader k, first to last, each as the dict it is returned in
AllOf(k) == [i \in 1..LenOf(k) |-> (k :> (i - 1))]

\* the dataloaders of order o drained one after the other
RECURSIVE Drained(_)
Drained(o) == IF o = <<>> THEN <<>> ELSE AllOf(Head(o)) \o Drained(Tail(o))

IsPrefix(s, t) == Len(s) <= Len(t) /\ \A i \in DOMAIN s : s[i] = t[i]

InOrderRun ==
    /\ Class = "InOrder"
    /\ pc = "ready"
    /\ ~loaded.taken

\* C4: InOrder over order o returns every batch of o[1], first to last, then
\* every batch of o[2], and so on; a dataloader without batches gives no dict,
\* a key that comes again in o is read again from its first batch, and
\* StopIteration is raised by the call that finds the last position drained;
\* for order [a, b] with a of length 1 and b of length 2 the keys are a, b, b.
InOrderDrainsInOrder ==
    InOrderRun =>
        /\ IsPrefix(records, Drained(Order))
        /\ stopped => records = Drained(Order)
        /\ calls > Len(Drained(Order)) => stopped
        /\ (/\ Order = <<"a", "b">>
            /\ LenOf("a") = 1
            /\ LenOf("b") = 2
            /\ stopped) => RecordKeys = <<"a", "b", "b">>

\* C4 witness: a run over an order that names a key twice has ended, the
\* batches of that key returned twice
InOrderDrainsInOrderWitness ==
    /\ InOrderRun
    /\ Order = <<"a", "a">>
    /\ LenOf("a") = 2
    /\ stopped
    /\ records = <<"a" :> 0, "a" :> 1, "a" :> 0, "a" :> 1>>

\* ---- resumption from a state dict
\* load_state_dict has just been called, on the object built to resume, with
\* the state dict state_dict gave for orig
RoundTrip(class) ==
    /\ Class = class
    /\ op = "load_state_dict"
    /\ snapshot.taken
    /\ loaded = snapshot

\* the key the cursor of __next__ takes first ("none" when it takes none)
RoundRobinSelects(obj) ==
    IF \A k \in Range(obj.dataloader_cycle.items) : Contains(obj.finished_dataloaders, k)
    THEN "none"
    ELSE CyclePeek(CycleSkip(obj.dataloader_cycle,
                             RoundRobinIterator_skipped(obj.dataloader_cycle,
                                                        obj.finished_dataloaders)))

\* C5: a RoundRobinIterator built over the same dataloaders and loaded with
\* the state dict of an iterator that has returned N >= 0 dicts has the
\* finished list of that iterator, and its cursor takes next the key the
\* cursor of that iterator takes next.
RoundRobinRoundTripContinues ==
    (RoundTrip("RoundRobin") /\ ret.exc = "None") =>
        /\ self.finished_dataloaders = orig.finished_dataloaders
        /\ RoundRobinSelects(self) = RoundRobinSelects(orig)

\* the object __init__ gives for the dataloaders and the strategy of the run
FreshRoundRobin ==
    RoundRobinIterator_init(AtCall(individual_dataloaders), dl_keys,
                            iteration_strategy).self

\* C7: load_state_dict of a new RoundRobinIterator with a state dict whose
\* cur_dataloader is no key of the dataloaders returns, and leaves
\* cur_dataloader, the cycle and the finished list as __init__ made them.
RoundRobinLoadUnknownKeyIsNoOp ==
    (/\ Class = "RoundRobin"
     /\ op = "load_state_dict"
     /\ calls = 0
     /\ loaded.cur_dataloader \notin Keys) =>
        /\ ret.exc = "None"
        /\ self = FreshRoundRobin

\* the place in iteration_order of the dataloader the next __next__ of obj
\* returns a batch of, and the batch; <<-1, -1>> when it returns none
InOrderNextRecord(obj) ==
    LET r == InOrderIterator_next(obj, AtCall(individual_dataloaders))
    IN  IF r.ret.exc = "None"
        THEN << r.self.iterators_finished, r.ret.value[KeyOf(r.ret.value)] >>
        ELSE << -1, -1 >>

InOrderNextPlace(obj) == InOrderNextRecord(obj)[1]

\* the first place at or after n of a dataloader that has a batch, -1 when
\* there is none
FirstWithBatchesFrom(order, n) ==
    LET ps == { p \in n..(Len(order) - 1) : LenOf(order[p + 1]) > 0 }
    IN  IF ps = {} THEN -1 ELSE CHOOSE p \in ps : \A q \in ps : p <= q

\* every batch of the dataloader obj reads has been returned, and __next__
\* has not yet gone to the following place
InOrderAtEndOfCurrent(obj) ==
    /\ obj.iterators_finished < obj.num_iterators
    /\ obj.cur_iter.pos = LenOf(obj.cur_iterator)
    /\ obj.cur_iter.pos > 0

\* C6 as stated: an InOrderIterator built over the same dataloaders and loaded
\* with the state dict of an iterator that has returned N >= 0 dicts returns
\* its next dict from the place in the order that iterator returns its next
\* dict from.
InOrderRoundTripSamePlace ==
    RoundTrip("InOrder") => InOrderNextPlace(self) = InOrderNextPlace(orig)

\* C6: the loaded iterator has the finished count and the order of the
\* iterator the state dict was taken from, and reads on from the place that
\* iterator was reading, from batch 0 of it; that is the place that iterator
\* returns its next dict from unless it had returned every batch of the
\* dataloader at that place, in which case it goes on one place later.
InOrderRoundTripResumesAtPlace ==
    RoundTrip("InOrder") =>
        /\ ret.exc = "None"
        /\ self.iterators_finished = orig.iterators_finished
        /\ self.iteration_order = orig.iteration_order
        /\ InOrderNextRecord(self) =
               LET p == FirstWithBatchesFrom(orig.iteration_order, orig.iterators_finished)
               IN  IF p = -1 THEN << -1, -1 >> ELSE << p, 0 >>
        /\ IF InOrderAtEndOfCurrent(orig)
           THEN /\ InOrderNextPlace(self) = orig.iterators_finished
                /\ InOrderNextPlace(orig) # orig.iterators_finished
           ELSE InOrderNextPlace(self) = InOrderNextPlace(orig)

\* a state dict taken in the middle of the second dataloader of the order is
\* loaded
InOrderRoundTripResumesAtPlaceWitness ==
    /\ RoundTrip("InOrder")
    /\ orig.iterators_finished = 1
    /\ orig.cur_iter.pos = 1
    /\ LenOf(orig.cur_iterator) = 2
    /\ InOrderNextRecord(self) = << 1, 0 >>

\* the object __init__ gives for the dataloaders and the strategy of the run
FreshInOrder ==
    InOrderIterator_init(AtCall(individual_dataloaders), dl_keys,
                         iteration_strategy).self

\* C8: load_state_dict of an InOrderIterator with a state dict whose
\* cur_iterator is not in iteration_order returns and leaves iterators_finished,
\* cur_iterator_idx, cur_iterator and cur_iter as they were.
InOrderLoadUnknownKeyChangesNothing ==
    [][(/\ Class = "InOrder"
        /\ op' = "load_state_dict"
        /\ loaded' # loaded
        /\ ~Contains(self.iteration_order, loaded'.cur_iterator)) =>
           /\ ret'.exc = "None"
           /\ self' = self]_vars

\* such a state dict, with a count other than that of the iterator, has been
\* loaded after a dict was returned
InOrderLoadUnknownKeyChangesNothingWitness ==
    /\ Class = "InOrder"
    /\ op = "load_state_dict"
    /\ ~Contains(self.iteration_order, loaded.cur_iterator)
    /\ loaded.iterators_finished # self.iterators_finished
    /\ calls > 0
    /\ pc = "ready"

\* ---- unsupported stopping mechanism
\* C9: the constructor of a RoundRobinIterator or an AllDatasetBatchesIterator
\* with WRAP_AROUND_UNTIL_KILLED raises NotImplementedError, builds no object,
\* and has called neither iter nor next of any dataloader.
WrapAroundRaisesAtConstruction ==
    (/\ Class \in {"RoundRobin", "AllDatasetBatches"}
     /\ iteration_strategy.stopping_mechanism = WRAP_AROUND_UNTIL_KILLED
     /\ pc # "new") =>
        /\ pc = "raised"
        /\ op = "__init__"
        /\ ret = NotImplementedError
        /\ self = NoObject
        /\ calls = 0
        /\ \A k \in Keys : /\ individual_dataloaders[k].iter_calls = 0
                           /\ individual_dataloaders[k].next_calls = 0

\* the constructor of an AllDatasetBatchesIterator over a dataloader with
\* batches has raised
WrapAroundRaisesAtConstructionWitness ==
    /\ Class = "AllDatasetBatches"
    /\ iteration_strategy.stopping_mechanism = WRAP_AROUND_UNTIL_KILLED
    /\ pc = "raised"
    /\ \E k \in Keys : LenOf(k) > 0

\* ---- restarts of AllDatasetBatchesIterator
\* a __next__ call of an AllDatasetBatchesIterator with
\* RESTART_UNTIL_ALL_DATASETS_EXHAUSTED
RestartNext ==
    /\ Class = "AllDatasetBatches"
    /\ iteration_strategy.stopping_mechanism = RESTART_UNTIL_ALL_DATASETS_EXHAUSTED
    /\ op' = "__next__"
    /\ calls' = calls + 1

\* iter of dataloader k is called in the step
Recreated(k) == individual_dataloaders'[k].iter_calls > 0

\* every batch of dataloader k has been read from its iterator
ExhaustedIterator(k) == self.individual_iterators[k] = LenOf(k)

NoDuplicates(s) == \A i, j \in 1..Len(s) : s[i] = s[j] => i = j

\* C10 as stated: __next__ does not re-create the iterator of a dataloader
\* that is in iterators_finished, that is, one that was exhausted before.
RestartsOnlyOnce ==
    [][(RestartNext /\ ~stopped /\ ret'.exc = "None") =>
          \A k \in Keys : Recreated(k) => ~Contains(self.iterators_finished, k)]_vars

\* C10: a dataloader enters iterators_finished at its first exhaustion, once;
\* at every exhaustion, the first or a later one, its iterator is re-created
\* and batch 0 of it put in the dict, unless the dataloader is the last one to
\* enter iterators_finished; a returned dict holds a batch of every dataloader;
\* __next__ raises when the dataloader it finds exhausted is the last one to
\* enter iterators_finished, or when a re-created iterator has no batch.
RestartsAtEveryExhaustion ==
    [][RestartNext =>
          /\ IsPrefix(self.iterators_finished, self'.iterators_finished)
          /\ NoDuplicates(self'.iterators_finished)
          /\ \A k \in Keys :
                 Recreated(k) =>
                     /\ ExhaustedIterator(k)
                     /\ \E i \in 1..(Cardinality(Keys) - 1) :
                            /\ i <= Len(self'.iterators_finished)
                            /\ self'.iterators_finished[i] = k
          /\ ret'.exc = "None" =>
                 /\ DOMAIN ret'.value = Keys
                 /\ \A k \in Keys :
                        ExhaustedIterator(k) => Recreated(k) /\ ret'.value[k] = 0
          /\ ret'.exc # "None" =>
                 \/ Len(self'.iterators_finished) = Cardinality(Keys)
                 \/ \E k \in Keys : Recreated(k) /\ LenOf(k) = 0]_vars

\* the third __next__ has re-created, for the second time, the iterator of a
\* dataloader of one batch
RestartsAtEveryExhaustionWitness ==
    /\ Class = "AllDatasetBatches"
    /\ iteration_strategy.stopping_mechanism = RESTART_UNTIL_ALL_DATASETS_EXHAUSTED
    /\ op = "__next__"
    /\ returned = 3
    /\ ret.exc = "None"
    /\ \E k \in Keys : /\ LenOf(k) = 1
                       /\ individual_dataloaders[k].iter_calls = 1
                       /\ Contains(self.iterators_finished, k)
                       /\ ret.value[k] = 0

\* ---- AllDatasetBatches, RESTART_UNTIL_ALL_DATASETS_EXHAUSTED
AllDatasetBatchesRestart ==
    /\ Class = "AllDatasetBatches"
    /\ iteration_strategy.stopping_mechanism = RESTART_UNTIL_ALL_DATASETS_EXHAUSTED
    /\ pc = "ready"

\* C11: AllDatasetBatches with RESTART_UNTIL_ALL_DATASETS_EXHAUSTED over
\* dataloaders that all have a batch returns as many dicts as the longest
\* dataloader has batches, then raises StopIteration, and every dict holds a
\* batch of every dataloader.
AllDatasetBatchesRestartReturnsLongest ==
    (AllDatasetBatchesRestart /\ \A k \in Keys : LenOf(k) > 0) =>
        /\ \A n \in DOMAIN records : DOMAIN records[n] = Keys
        /\ returned <= Longest
        /\ stopped => returned = Longest
        /\ calls > Longest => stopped

\* the run over a (1 batch) and b (3 batches) has ended after 3 dicts with
\* batch 0 of a in each
AllDatasetBatchesRestartReturnsLongestWitness ==
    /\ AllDatasetBatchesRestart
    /\ dl_keys = <<"a", "b">>
    /\ LenOf("a") = 1
    /\ LenOf("b") = 3
    /\ stopped
    /\ returned = 3
    /\ records = << [a |-> 0, b |-> 0], [a |-> 0, b |-> 1], [a |-> 0, b |-> 2] >>

\* ---- AllDatasetBatches, ALL_DATASETS_EXHAUSTED
\* a __next__ call of an AllDatasetBatchesIterator with ALL_DATASETS_EXHAUSTED
AllExhaustedNext ==
    /\ Class = "AllDatasetBatches"
    /\ iteration_strategy.stopping_mechanism = ALL_DATASETS_EXHAUSTED
    /\ op' = "__next__"
    /\ calls' = calls + 1

\* C12 as stated: a dataloader whose iterator raised StopIteration in a
\* __next__ call is in iterators_finished after the call, and __next__ calls
\* next of no iterator that raised it in an earlier call (each call reads every
\* iterator once, so that is one of a dataloader with fewer batches than calls
\* were made).
AllExhaustedRecordsFinished ==
    [][(AllExhaustedNext /\ ret'.exc = "None") =>
          \A k \in Keys :
              /\ (individual_dataloaders'[k].next_calls > 0 /\ k \notin DOMAIN ret'.value)
                     => Contains(self'.iterators_finished, k)
              /\ calls > LenOf(k) => individual_dataloaders'[k].next_calls = 0]_vars

\* C12: under ALL_DATASETS_EXHAUSTED a dataloader whose iterator is exhausted
\* is left out of the dict of the call and of every later call; nothing is
\* put in iterators_finished, and every call calls next of every iterator
\* once, the exhausted ones included.
AllExhaustedOmitsFinished ==
    [][AllExhaustedNext =>
          /\ self'.iterators_finished = <<>>
          /\ \A k \in Keys :
                 /\ individual_dataloaders'[k].next_calls = 1
                 /\ individual_dataloaders'[k].iter_calls = 0
                 /\ ExhaustedIterator(k) =>
                        /\ k \notin DOMAIN ret'.value
                        /\ self'.individual_iterators[k] = LenOf(k)
                 /\ ~ExhaustedIterator(k) => k \in DOMAIN ret'.value]_vars

\* the third call over a (1 batch) and b (3 batches) has called next of the
\* iterator of a, exhausted since the second call
AllExhaustedOmitsFinishedWitness ==
    /\ AllDatasetBatchesAllExhausted
    /\ op = "__next__"
    /\ dl_keys = <<"a", "b">>
    /\ LenOf("a") = 1
    /\ LenOf("b") = 3
    /\ calls = 3
    /\ individual_dataloaders["a"].next_calls = 1
    /\ ret = Returned([b |-> 2])
    /\ self.iterators_finished = <<>>

\* ---- RandomizedBatchSampler
\* a __next__ call of a RandomizedBatchSamplerIterator under mechanism m
SamplerNext(m) ==
    /\ Class = "RandomizedBatchSampler"
    /\ iteration_strategy.stopping_mechanism = m
    /\ op' = "__next__"
    /\ calls' = calls + 1

\* _iterator_is_exhausted of dataloader k
MarkedExhausted(obj, k) ==
    obj._iterator_is_exhausted[IndexOf(obj._iterator_names, k)]

\* C13 as stated: in every mode but WRAP_AROUND_UNTIL_KILLED, with weights or
\* without, __next__ calls next of no iterator that is marked exhausted.
SamplerDrawsFromUnmarked ==
    [][(\E m \in StoppingMechanism \ {WRAP_AROUND_UNTIL_KILLED} : SamplerNext(m)) =>
          \A k \in Keys :
              MarkedExhausted(self, k) => individual_dataloaders'[k].next_calls = 0]_vars

\* C13: in every mode but WRAP_AROUND_UNTIL_KILLED the dict returned is a batch
\* of a dataloader that is not marked exhausted, and a mark is only put on an
\* exhausted iterator; with weights, next is called of no marked iterator (and
\* at most once of each, but for the second call a restart makes); with
\* weights None the marked iterators stay
\* selectable, and next of a marked one is called (and raises) before the call
\* selects again.
SamplerReturnsFromUnmarked ==
    [][(\E m \in StoppingMechanism \ {WRAP_AROUND_UNTIL_KILLED} : SamplerNext(m)) =>
          /\ ret'.exc = "None" =>
                 /\ Cardinality(DOMAIN ret'.value) = 1
                 /\ ~MarkedExhausted(self', KeyOf(ret'.value))
                 /\ ret'.value[KeyOf(ret'.value)] < LenOf(KeyOf(ret'.value))
          /\ \A k \in Keys :
                 /\ MarkedExhausted(self, k) => MarkedExhausted(self', k)
                 /\ MarkedExhausted(self', k) =>
                        self'._individual_iterators[k] = LenOf(k)
                 /\ ~iteration_strategy.weights.is_none =>
                        /\ ~SamplerNext(RESTART_UNTIL_ALL_DATASETS_EXHAUSTED) =>
                               individual_dataloaders'[k].next_calls <= 1
                        /\ MarkedExhausted(self, k) =>
                               individual_dataloaders'[k].next_calls = 0]_vars

\* without weights, a call has called next of an iterator it had marked
\* exhausted, and then returned a batch of another dataloader
SamplerReturnsFromUnmarkedWitness ==
    /\ Class = "RandomizedBatchSampler"
    /\ iteration_strategy.stopping_mechanism = ALL_DATASETS_EXHAUSTED
    /\ iteration_strategy.weights.is_none
    /\ op = "__next__"
    /\ ret.exc = "None"
    /\ \E k \in Keys : /\ MarkedExhausted(self, k)
                       /\ individual_dataloaders[k].next_calls = 2
                       /\ LenOf(k) > 0

\* every batch of dataloader k has been read from its iterator
SamplerExhaustedIterator(k) == self._individual_iterators[k] = LenOf(k)

SamplerAllExhaustedReturnsTotal ==
    [][SamplerNext(ALL_DATASETS_EXHAUSTED) =>
          /\ ret'.exc \in {"None", "StopIteration"}
          /\ ret'.exc = "None" =>
                 LET k == KeyOf(ret'.value)
                 IN  /\ DOMAIN ret'.value = {k}
                     /\ ~SamplerExhaustedIterator(k)
                     /\ ret'.value[k] = self._individual_iterators[k]
                     /\ self'._individual_iterators[k] = ret'.value[k] + 1
          /\ \A k \in Keys :
                 /\ individual_dataloaders'[k].iter_calls = 0
                 /\ (/\ individual_dataloaders'[k].next_calls > 0
                     /\ k \notin DOMAIN ret'.value) => MarkedExhausted(self', k)
          /\ ret'.exc = "StopIteration" <=> \A k \in Keys : MarkedExhausted(self', k)
          /\ returned' <= Total
          /\ ret'.exc = "StopIteration" => returned' = Total]_vars

\* the run over a (1 batch) and b (2 batches) without weights has ended after
\* 3 dicts
SamplerAllExhaustedReturnsTotalWitness ==
    /\ Ended("RandomizedBatchSampler", ALL_DATASETS_EXHAUSTED)
    /\ iteration_strategy.weights.is_none
    /\ dl_keys = <<"a", "b">>
    /\ LenOf("a") = 1
    /\ LenOf("b") = 2
    /\ returned = 3
    /\ \A k \in Keys : MarkedExhausted(self, k)

\* C16: RandomizedBatchSampler with WRAP_AROUND_UNTIL_KILLED over dataloaders
\* that all have a batch: random.choices is given every name at every call,
\* no dataloader is ever marked exhausted or finished, a selected exhausted
\* iterator is re-created and batch 0 of it returned, and no call raises
\* StopIteration.
SamplerWrapAroundNeverEnds ==
    [][(SamplerNext(WRAP_AROUND_UNTIL_KILLED) /\ \A k \in Keys : LenOf(k) > 0) =>
          /\ Range(RandomizedBatchSamplerIterator_names(self, iteration_strategy)) = Keys
          /\ ret'.exc = "None"
          /\ Cardinality(DOMAIN ret'.value) = 1
          /\ ~stopped'
          /\ returned' = calls'
          /\ self'._iterators_finished = <<>>
          /\ \A k \in Keys :
                 /\ ~MarkedExhausted(self', k)
                 /\ k \in DOMAIN ret'.value <=> individual_dataloaders'[k].next_calls > 0
                 /\ (k \in DOMAIN ret'.value /\ SamplerExhaustedIterator(k)) =>
                        /\ Recreated(k)
                        /\ ret'.value[k] = 0
                 /\ (k \in DOMAIN ret'.value /\ ~SamplerExhaustedIterator(k)) =>
                        /\ ~Recreated(k)
                        /\ ret'.value[k] = self._individual_iterators[k]]_vars

\* more dicts have been returned than there are batches, the last one batch 0
\* of a re-created iterator
SamplerWrapAroundNeverEndsWitness ==
    /\ Class = "RandomizedBatchSampler"
    /\ iteration_strategy.stopping_mechanism = WRAP_AROUND_UNTIL_KILLED
    /\ op = "__next__"
    /\ \A k \in Keys : LenOf(k) > 0
    /\ Cardinality(Keys) = 2
    /\ returned > Total
    /\ \E k \in Keys : individual_dataloaders[k].iter_calls = 1 /\ ret = Returned(k :> 0)


\* ---- C17
\* a distributed run whose runtime is initialized, every rank with its iterator built
RanksRun ==
    /\ dist_initialized
    /\ \A r \in Ranks : ranks[r].pc = "ready"

\* the dataloaders of rank r have the lengths of those of rank 0
SameLengths(r) ==
    \A k \in Range(dl_keys) :
        ranks[r].individual_dataloaders[k].len = ranks[0].individual_dataloaders[k].len

\* C17 as stated: with cross-rank enforcement and torch.distributed
\* initialized, the keys of the batches the ranks return are the same, step
\* by step, whatever the lengths of their dataloaders (none of them empty here).
SamplerRanksReturnSameKeys ==
    RanksRun /\ (\A r \in Ranks : \A k \in Range(dl_keys) :
                     ranks[r].individual_dataloaders[k].len > 0)
        => \A r \in Ranks :
               \A i \in DOMAIN ranks[r].keys \cap DOMAIN ranks[0].keys :
                   ranks[r].keys[i] = ranks[0].keys[i]

\* C17 (amended): with cross-rank enforcement and torch.distributed
\* initialized, every selection a rank makes is the key rank 0 selected in
\* its selection of the same number, whatever the rank sampled; a __next__
\* call makes one selection for every draw it attempts, so the keys of the
\* batches returned are the same, step by step, on the ranks whose
\* dataloaders have the lengths of those of rank 0.
SamplerRanksSelectSameKeys ==
    RanksRun
        => \A r \in Ranks :
               /\ IsPrefix(ranks[r].selected, ranks[0].selected)
               /\ Len(broadcasts) = Len(ranks[0].selected)
               /\ \A i \in DOMAIN broadcasts :
                      broadcasts[i] = KeyIdx(ranks[0].self._iterator_names,
                                             ranks[0].selected[i])
               /\ SameLengths(r) => IsPrefix(ranks[r].keys, ranks[0].keys)

\* a rank other than 0 has returned two batches of different dataloaders,
\* as rank 0 has, out of dataloaders of the same lengths
SamplerRanksSelectSameKeysWitness ==
    /\ RanksRun
    /\ SameLengths(1)
    /\ Len(ranks[1].keys) >= 2
    /\ ranks[1].keys[1] # ranks[1].keys[2]
    /\ ranks[1].self._iterator_names_dict["a"] # 0


\* ---- C18
\* C18 as stated: with cross-rank enforcement requested and
\* torch.distributed not initialized, the construction of the iterator
\* succeeds (and its __next__ calls then sample locally, without a broadcast).
SamplerConstructsWithoutRuntime ==
    ~dist_initialized
        => \A r \in Ranks :
               /\ ranks[r].pc # "raised"
               /\ ranks[r].pc = "ready" => ranks[r].self.constructed


\* ---- C19
\* the constructor of a RandomizedBatchSamplerIterator has been called with weights
SamplerConstructedWithWeights ==
    /\ Class = "RandomizedBatchSampler"
    /\ ~iteration_strategy.weights.is_none
    /\ pc # "new"

\* C19: the constructor of a RandomizedBatchSamplerIterator whose weights lack
\* the key of a dataloader raises AssertionError, builds no object and has
\* called next of no dataloader; with weights that have every key of the
\* dataloaders, and maybe other keys, it builds the object, whose weights are
\* those of the dataloaders in the order of the sorted names.
SamplerWeightsCoverDataloaders ==
    SamplerConstructedWithWeights =>
        LET weights == iteration_strategy.weights.dict
        IN  IF \E k \in Keys : k \notin DOMAIN weights
            THEN /\ pc = "raised"
                 /\ op = "__init__"
                 /\ ret = AssertionError
                 /\ self = NoObject
                 /\ calls = 0
                 /\ \A k \in Keys : individual_dataloaders[k].next_calls = 0
            ELSE /\ pc = "ready"
                 /\ self.constructed
                 /\ DOMAIN self._iterator_weights.dict = DOMAIN self._iterator_names
                 /\ \A i \in DOMAIN self._iterator_names :
                        self._iterator_weights.dict[i] = weights[self._iterator_names[i]]

\* the constructor has raised for weights without the key of a dataloader
\* that has batches
SamplerWeightsCoverDataloadersWitness ==
    /\ SamplerConstructedWithWeights
    /\ pc = "raised"
    /\ \E k \in Keys : k \notin DOMAIN iteration_strategy.weights.dict /\ LenOf(k) > 0
    /\ \E k \in Keys : k \in DOMAIN iteration_strategy.weights.dict


\* ---- C20
\* the dataloaders the iterator has recorded as finished
Finished(obj) ==
    IF Class = "AllDatasetBatches" THEN Range(obj.iterators_finished)
    ELSE Range(obj._iterators_finished)

\* C20 as stated: a __next__ call of an AllDatasetBatchesIterator or a
\* RandomizedBatchSamplerIterator raises StopIteration only when the end
\* condition of its stopping mechanism holds: under
\* RESTART_UNTIL_ALL_DATASETS_EXHAUSTED when every dataloader is recorded as
\* finished, under WRAP_AROUND_UNTIL_KILLED never, whatever the lengths of the
\* dataloaders, zero included.
StopIterationOnlyAtEndCondition ==
    [][(/\ Class \in {"AllDatasetBatches", "RandomizedBatchSampler"}
        /\ pc = "ready"
        /\ op' = "__next__"
        /\ calls' = calls + 1
        /\ ret' = StopIteration) =>
           LET mode == iteration_strategy.stopping_mechanism
           IN  /\ mode = RESTART_UNTIL_ALL_DATASETS_EXHAUSTED => Finished(self') = Keys
               /\ mode # WRAP_AROUND_UNTIL_KILLED]_vars


\* ---- C21
\* a __next__ call of a RoundRobinIterator
RoundRobinNexted ==
    /\ Class = "RoundRobin"
    /\ pc = "ready"
    /\ op' = "__next__"
    /\ calls' = calls + 1

\* C21: a __next__ call of a RoundRobinIterator, at any step of a run and
\* after a load_state_dict too, calls next of no dataloader that is in
\* finished_dataloaders and of no dataloader twice, re-creates no iterator, and
\* when it returns a dict, that dict is the next batch of one dataloader, the
\* only one whose iterator has advanced.
RoundRobinDrawsFromUnfinished ==
    [][RoundRobinNexted =>
          /\ \A k \in Keys :
                 /\ individual_dataloaders'[k].iter_calls = 0
                 /\ individual_dataloaders'[k].next_calls <= 1
                 /\ individual_dataloaders'[k].next_calls = 1
                        => ~Contains(self.finished_dataloaders, k)
          /\ ret'.exc = "None" =>
                 \E k \in Keys :
                     /\ ret'.value = (k :> self.individual_iterators[k])
                     /\ self'.individual_iterators =
                            [self.individual_iterators EXCEPT ![k] = @ + 1]
                     /\ individual_dataloaders'[k].next_calls = 1
                     /\ ~Contains(self'.finished_dataloaders, k)]_vars

\* a call has passed over two finished dataloaders and returned a batch of
\* the third
RoundRobinDrawsFromUnfinishedWitness ==
    /\ Class = "RoundRobin"
    /\ pc = "ready"
    /\ op = "__next__"
    /\ ret.exc = "None"
    /\ Len(self.finished_dataloaders) = 2
    /\ \A k \in Keys : individual_dataloaders[k].next_calls = 1 <=> k = KeyOf(ret.value)


\* ---- C22
\* C22 as stated: load_state_dict of an InOrderIterator restores
\* iterators_finished from a state dict whose cur_iterator is in
\* iteration_order and whose iterators_finished is in 0..len(iteration_order),
\* and leaves the iterator as it was for every other state dict, one with a
\* count below zero too.
InOrderLoadRestoresInRangeOnly ==
    [][(/\ Class = "InOrder"
        /\ op' = "load_state_dict"
        /\ loaded' # loaded) =>
           IF /\ Contains(self.iteration_order, loaded'.cur_iterator)
              /\ loaded'.iterators_finished \in 0..Len(self.iteration_order)
           THEN /\ ret'.exc = "None"
                /\ self' = [self EXCEPT !.iterators_finished = loaded'.iterators_finished]
           ELSE /\ ret'.exc = "None"
                /\ self' = self]_vars


\* ---- C23
\* the iterator class that belongs to the class of a strategy
IteratorOf(class) ==
    CASE class = "RoundRobin" -> "RoundRobinIterator"
      [] class = "AllDatasetBatches" -> "AllDatasetBatchesIterator"
      [] class = "RandomizedBatchSampler" -> "RandomizedBatchSamplerIterator"
      [] class = "InOrder" -> "InOrderIterator"
      [] OTHER -> "none"

\* C23: DataIterationStrategyRegistry.get returns RoundRobinIterator,
\* AllDatasetBatchesIterator, RandomizedBatchSamplerIterator or InOrderIterator
\* for a strategy whose class is RoundRobin, AllDatasetBatches,
\* RandomizedBatchSampler or InOrder, raises NotImplementedError for a strategy
\* of any other class, and leaves REGISTRY as it is, so that every call with a
\* strategy of the same class has the same outcome.
RegistryGetDispatches ==
    /\ REGISTRY = DataIterationStrategyRegistry_REGISTRY
    /\ \A i \in DOMAIN got :
           /\ got[i].ret = IF IteratorOf(got[i].class) = "none"
                           THEN NotImplementedError
                           ELSE Returned(IteratorOf(got[i].class))
           /\ \A j \in DOMAIN got : got[j].class = got[i].class => got[j].ret = got[i].ret

\* get has been called with an InOrder strategy, with a strategy of a class
\* that is not registered, and with an InOrder strategy again
RegistryGetDispatchesWitness ==
    /\ Len(got) = 3
    /\ got[1].class = "InOrder"
    /\ got[2].class = "RoundRobinSubclass"
    /\ got[3].class = "InOrder"
    /\ got[3].ret = Returned("InOrderIterator")


\* ---- C24
\* C24: a dict returned by __next__ of a RoundRobinIterator, an
\* InOrderIterator or a RandomizedBatchSamplerIterator has one entry, a dict
\* returned by __next__ of an AllDatasetBatchesIterator has one entry at least;
\* every key of it is a key of individual_dataloaders and its value a batch of
\* that dataloader (at any step of a run, after a load_state_dict too).
RecordsHoldDataloaderKeys ==
    (op = "__next__" /\ ret.exc = "None") =>
        /\ DOMAIN ret.value \subseteq Keys
        /\ \A k \in DOMAIN ret.value : ret.value[k] \in 0..(LenOf(k) - 1)
        /\ IF Class = "AllDatasetBatches"
           THEN Cardinality(DOMAIN ret.value) >= 1
           ELSE Cardinality(DOMAIN ret.value) = 1

\* an AllDatasetBatchesIterator over three dataloaders has returned a dict
\* of one entry after one of two
RecordsHoldDataloaderKeysWitness ==
    /\ Class = "AllDatasetBatches"
    /\ op = "__next__"
    /\ ret.exc = "None"
    /\ Len(dl_keys) = 3
    /\ Len(records) >= 2
    /\ Cardinality(DOMAIN records[Len(records)]) = 1
    /\ Cardinality(DOMAIN records[Len(records) - 1]) = 2


\* ---- C25
\* C25 as stated: load_state_dict of a RoundRobinIterator with a state dict
\* whose cur_dataloader is a key of individual_dataloaders returns, with
\* cur_dataloader that key and finished_dataloaders the list of the state
\* dict, and has called neither iter nor next of any dataloader nor moved any
\* of individual_iterators.
RoundRobinLoadMovesCursorOnly ==
    [][(/\ Class = "RoundRobin"
        /\ op' = "load_state_dict"
        /\ loaded' # loaded
        /\ loaded'.cur_dataloader \in Keys) =>
           /\ ret'.exc = "None"
           /\ self'.cur_dataloader = loaded'.cur_dataloader
           /\ self'.finished_dataloaders = loaded'.finished_dataloaders
           /\ self'.individual_iterators = self.individual_iterators
           /\ \A k \in Keys : /\ individual_dataloaders'[k].iter_calls = 0
                              /\ individual_dataloaders'[k].next_calls = 0]_vars


\* ---- C26
\* a load_state_dict call of an InOrderIterator
InOrderLoaded ==
    /\ Class = "InOrder"
    /\ op' = "load_state_dict"
    /\ loaded' # loaded

\* the first __next__ call of an InOrderIterator after a load_state_dict
InOrderFirstNextAfterLoad ==
    /\ Class = "InOrder"
    /\ pc = "ready"
    /\ op = "load_state_dict"
    /\ op' = "__next__"

\* iter() calls a call has made
IterCalls(dls) == SumOver([k \in Keys |-> dls[k].iter_calls], Keys)

RankOutcomes(r) ==
    RandomizedBatchSamplerIterator_next(
        ranks[r].self, AtCall(ranks[r].individual_dataloaders), iteration_strategy,
        Dist(dist_initialized, r,
             SubSeq(broadcasts, Len(ranks[r].selected) + 1, Len(broadcasts))),
        <<>>, MaxChoices)

\* C27: with cross-rank enforcement, torch.distributed initialized and the
\* dataloaders of a rank of the lengths of those of rank 0, under every
\* stopping mechanism: when the rank has made as many __next__ calls as rank
\* 0, it has taken part in as many broadcasts, call by call, has returned
\* batches of the same keys and has raised StopIteration in the same calls;
\* when it has made fewer calls, its next call finds every broadcast it takes
\* part in made by rank 0 and does not wait.
SamplerRanksStayInStep ==
    RanksRun =>
        \A r \in Ranks :
            SameLengths(r) =>
                /\ ranks[r].calls = ranks[0].calls =>
                       /\ ranks[r].selected = ranks[0].selected
                       /\ ranks[r].keys = ranks[0].keys
                       /\ ranks[r].ret = ranks[0].ret
                       /\ ranks[r].stopped = ranks[0].stopped
                       /\ ranks[r].self._iterator_is_exhausted
                              = ranks[0].self._iterator_is_exhausted
                /\ ranks[r].calls < ranks[0].calls =>
                       /\ RankOutcomes(r) # {}
                       /\ \A o \in RankOutcomes(r) : o.ret # Waits

\* rank 1 has made as many calls as rank 0, one of them with two broadcasts,
\* and both have raised StopIteration in their last call, after two batches
SamplerRanksStayInStepWitness ==
    /\ RanksRun
    /\ SameLengths(1)
    /\ ranks[1].calls = ranks[0].calls
    /\ ranks[1].ret = StopIteration
    /\ Len(ranks[1].keys) = 2
    /\ Len(ranks[1].selected) > ranks[1].calls
    /\ ranks[1].calls = 3


\* ---- C28
\* C28 as stated: once __next__ of an iterator of any class has raised
\* StopIteration, under any stopping mechanism but WRAP_AROUND_UNTIL_KILLED,
\* every later __next__ call raises StopIteration too (here over dataloaders
\* that all have batches).
StopIterationIsSticky ==
    [][(/\ pc = "ready"
        /\ op' = "__next__"
        /\ calls' = calls + 1
        /\ stopped
        /\ \A k \in Keys : LenOf(k) > 0
        /\ \/ Class = "InOrder"
           \/ iteration_strategy.stopping_mechanism # WRAP_AROUND_UNTIL_KILLED) =>
           ret' = StopIteration]_vars


\* ---- C29
\* C29 as stated: every __next__ call of a RoundRobinIterator, whatever the
\* iteration_order made of keys of individual_dataloaders (one that omits or
\* repeats keys too), comes to an end: it returns a dict or raises
\* StopIteration.
RoundRobinNextComesToAnEnd ==
    (Class = "RoundRobin" /\ op = "__next__") =>
        /\ pc = "ready"
        /\ ret.exc \in {"None", "StopIteration"}


\* ---- C30
\* C30: a RandomizedBatchSamplerIterator under SMALLEST_DATASET_EXHAUSTED,
\* ALL_DATASETS_EXHAUSTED or RESTART_UNTIL_ALL_DATASETS_EXHAUSTED over
\* dataloaders that all have batches, with weights None or positive, and a
\* random.choices that is fair: every __next__ call comes to its return or
\* its StopIteration, and a __next__ call raises StopIteration in the end.
SamplerCallsEndAndRunEnds ==
    /\ (pc = "choosing") ~> (pc = "ready")
    /\ <>(pc = "ready" /\ ret = StopIteration /\ stopped)

\* a call under ALL_DATASETS_EXHAUSTED without weights is at a random.choices
\* after a failed draw, with a marked dataloader among the names it selects
\* from
SamplerCallsEndAndRunEndsWitness ==
    /\ Class = "RandomizedBatchSampler"
    /\ pc = "choosing"
    /\ iteration_strategy.stopping_mechanism = ALL_DATASETS_EXHAUSTED
    /\ iteration_strategy.weights.is_none
    /\ \E k \in Range(RandomizedBatchSamplerIterator_names(self, iteration_strategy)) :
           /\ MarkedExhausted(self, k)
           /\ individual_dataloaders[k].next_calls = 1

\* ---- C31
\* the outcomes of the first n __next__ calls on obj, up to a call that hangs
RECURSIVE RoundRobinOutcomes(_, _, _, _)
RoundRobinOutcomes(obj, dls, strategy, n) ==
    IF n = 0 THEN <<>>
    ELSE LET r == RoundRobinIterator_next(obj, AtCall(dls), strategy)
         IN  IF r.ret.exc = "Hang" THEN << r.ret >>
             ELSE << r.ret >> \o RoundRobinOutcomes(r.self, r.dls, strategy, n - 1)

\* the dicts among the outcomes that come before the first exception
RECURSIVE ReturnedBefore(_)
ReturnedBefore(outcomes) ==
    IF outcomes = <<>> \/ Head(outcomes).exc # "None" THEN <<>>
    ELSE << Head(outcomes).value >> \o ReturnedBefore(Tail(outcomes))

\* the run of a RoundRobinIterator over the dataloaders of this run, in the
\* order of this run, under ALL_DATASETS_EXHAUSTED
AllExhaustedOutcomes(n) ==
    LET strategy == RoundRobin(ALL_DATASETS_EXHAUSTED, iteration_strategy.iteration_order)
        r == RoundRobinIterator_init(AtCall(individual_dataloaders), dl_keys, strategy)
    IN  RoundRobinOutcomes(r.self, r.dls, strategy, n)

RoundRobinRestart ==
    /\ Class = "RoundRobin"
    /\ iteration_strategy.stopping_mechanism = RESTART_UNTIL_ALL_DATASETS_EXHAUSTED

\* C31: RoundRobinIterator.__init__ with RESTART_UNTIL_ALL_DATASETS_EXHAUSTED
\* returns an iterator; every __next__ call on it has the outcome that the
\* call of the same number has under ALL_DATASETS_EXHAUSTED over the same
\* dataloaders and order, so the dicts returned are the same sequence; and
\* no __next__ call applies iter() to a dataloader.
RoundRobinRestartRunsAsAllExhausted ==
    (RoundRobinRestart /\ op # "none") =>
        /\ pc # "raised"
        /\ self.constructed
        /\ op = "__next__" =>
               /\ ret = AllExhaustedOutcomes(calls)[calls]
               /\ records = ReturnedBefore(AllExhaustedOutcomes(calls))
               /\ \A k \in Range(dl_keys) : individual_dataloaders[k].iter_calls = 0

\* a dataloader has finished, the run has gone on to another and has not ended
RoundRobinRestartRunsAsAllExhaustedWitness ==
    /\ RoundRobinRestart
    /\ op = "__next__"
    /\ ret.exc = "None"
    /\ ~stopped
    /\ Len(records) >= 3
    /\ self.finished_dataloaders # <<>>
    /\ \E k \in Range(self.finished_dataloaders) : individual_dataloaders[k].len > 0

\* ---- C32
\* a state_dict call made right after a load_state_dict call that returned, on
\* an iterator no __next__ was called on
StateDictAfterLoad ==
    /\ Class \in CheckpointClasses
    /\ op = "state_dict"
    /\ loaded.taken
    /\ calls = 0

\* the fields of a state dict of the class of this run
StateDictFields(sd) ==
    IF Class = "RoundRobin"
    THEN << sd.finished_dataloaders, sd.cur_dataloader >>
    ELSE << sd.iterators_finished, sd.cur_iterator >>

\* C32: for RoundRobinIterator and InOrderIterator, state_dict called right
\* after a load_state_dict(s) that restored s (for InOrderIterator: s passed
\* the validation) on a newly constructed iterator, before any __next__,
\* returns a dict equal to s: the same finished list or count and the same
\* current key.
StateDictAfterLoadIsLoaded ==
    (/\ StateDictAfterLoad
     /\ Class = "InOrder" => ~InOrderIterator_rejects(self, loaded))
        => StateDictFields(snapshot) = StateDictFields(loaded)

\* the RoundRobinIterator part alone
RoundRobinStateDictAfterLoadIsLoaded ==
    (StateDictAfterLoad /\ Class = "RoundRobin")
        => StateDictFields(snapshot) = StateDictFields(loaded)

\* the InOrderIterator part that holds: the count of s is the count returned
InOrderStateDictAfterLoadHasCount ==
    (/\ StateDictAfterLoad
     /\ Class = "InOrder"
     /\ ~InOrderIterator_rejects(self, loaded))
        => /\ snapshot.iterators_finished = loaded.iterators_finished
           /\ snapshot.cur_iterator = self.iteration_order[1]

\* ---- C33
\* C33: the dict a RoundRobinIterator state_dict call returned keeps the
\* content it had at that call while __next__ is called further on the same
\* iterator (a dataloader that finishes later does not come into its
\* finished_dataloaders), and the list of a dict passed to load_state_dict is
\* not changed by the __next__ calls that follow.
RoundRobinStateDictsKeepContent ==
    [][/\ snapshot.taken => snapshot' = snapshot
       /\ loaded.taken => loaded' = loaded]_vars

\* what does hold: a state dict changes at an append of __next__ alone, and
\* then in its list alone, which is the list of the iterator
RoundRobinStateDictsFollowIterator ==
    [][/\ snapshot.taken =>
              /\ snapshot'.cur_dataloader = snapshot.cur_dataloader
              /\ snapshot'.finished_dataloaders = self'.finished_dataloaders
       /\ loaded.taken =>
              /\ loaded'.cur_dataloader = loaded.cur_dataloader
              /\ loaded'.finished_dataloaders = self'.finished_dataloaders]_vars

\* ---- C34
\* the attribute is read and _esc.check called on rank 0 alone
EarlyStoppingChecksOnRankZero ==
    \A r \in World \ {0} : ranks[r].reads = 0 /\ ranks[r].checked = <<>>

\* the decision of every _maybe_stop call of every rank is what the _esc.check
\* call of that number returned on rank 0, and state.stop() was called on a
\* rank exactly when one of its decisions was True
EarlyStoppingRanksAgree ==
    \A r \in World :
        /\ Len(ranks[r].decisions) <= Len(ranks[0].checked)
        /\ \A n \in DOMAIN ranks[r].decisions :
               ranks[r].decisions[n] = ranks[0].checked[n]
        /\ ranks[r].state._should_stop = (\E n \in DOMAIN ranks[r].decisions :
                                              ranks[r].decisions[n])

\* a rank in a sync_bool call whose broadcast rank 0 will not make
LeftWaiting(r) ==
    /\ ranks[r].pc = "sync_bool"
    /\ Len(ranks[r].decisions) >= Len(broadcasts)
    /\ ranks[0].pc = "raised"

\* C34: in a distributed run the monitored attribute is read and the
\* EarlyStopChecker called on rank 0 alone; after every check all ranks take
\* the decision of rank 0, state.stop() being called on a rank if and only
\* if the check of rank 0 returned True; and no rank is left waiting in
\* sync_bool when the unit has no attribute of the monitored name.
EarlyStoppingRanksDecideTogether ==
    /\ EarlyStoppingChecksOnRankZero
    /\ EarlyStoppingRanksAgree
    /\ \A r \in World : ~LeftWaiting(r)

\* ---- C35
\* the list of an iterator that records the dataloaders found finished
FinishedList(obj) ==
    IF Class = "RoundRobin" THEN obj.finished_dataloaders
    ELSE IF Class = "AllDatasetBatches" THEN obj.iterators_finished
    ELSE obj._iterators_finished

\* the batches read so far from the iterator obj holds of dataloader k
IteratorPos(obj, k) ==
    IF Class = "RandomizedBatchSampler" THEN obj._individual_iterators[k]
    ELSE obj.individual_iterators[k]

\* a __next__ call on an iterator built in this run and never loaded
FreshNext ==
    /\ pc = "ready"
    /\ op' = "__next__"
    /\ calls' = calls + 1

\* C35: at every __next__ call on a newly constructed RoundRobinIterator,
\* AllDatasetBatchesIterator or RandomizedBatchSamplerIterator the finished
\* list holds keys of individual_dataloaders only, each once at most, keeps
\* the keys it has, and gains a key only when the call has called next on the
\* iterator of that dataloader with every batch of it read before (so that
\* next raised StopIteration); the iterators_finished of an InOrderIterator
\* stays in 0..len(iteration_order) and never goes down.
FinishedListIsSound ==
    [][FreshNext =>
          IF Class = "InOrder"
          THEN /\ self'.iterators_finished \in 0..Len(self.iteration_order)
               /\ self'.iterators_finished >= self.iterators_finished
          ELSE /\ Range(FinishedList(self')) \subseteq Range(dl_keys)
               /\ NoDuplicates(FinishedList(self'))
               /\ IsPrefix(FinishedList(self), FinishedList(self'))
               /\ \A k \in Range(FinishedList(self')) \ Range(FinishedList(self)) :
                      /\ IteratorPos(self, k) = individual_dataloaders[k].len
                      /\ individual_dataloaders'[k].next_calls >= 1]_vars

\* a dataloader recorded as finished is found exhausted once more, and one
\* that was not recorded is recorded
FinishedListIsSoundWitness ==
    /\ Class = "AllDatasetBatches"
    /\ iteration_strategy.stopping_mechanism = RESTART_UNTIL_ALL_DATASETS_EXHAUSTED
    /\ op = "__next__"
    /\ Len(self.iterators_finished) >= 2
    /\ \E k \in Range(self.iterators_finished) :
           /\ individual_dataloaders[k].len > 0
           /\ calls > 2 * individual_dataloaders[k].len + 1

====
